---------------------------- MODULE Spec2Model ----------------------------
(***************************************************************************)
(* A model of the content-generator pipeline (main.py and src/*.py):       *)
(*   DataCollector -> ContentGenerator -> VideoCreator -> PlatformUploader *)
(*   -> sqlite record, driven by YouTubeAutomationSystem.                  *)
(*                                                                         *)
(* Python values are modelled as follows.                                  *)
(*   dict            a function whose DOMAIN is the set of keys            *)
(*   list            a sequence                                            *)
(*   None            the string None                                       *)
(*   an exception    a result record with raised = TRUE                    *)
(*   random / network / rendering / upload outcomes: fields of an          *)
(*   environment record chosen nondeterministically.                       *)
(***************************************************************************)
EXTENDS Integers, Sequences, FiniteSets, TLC

VARIABLES
    pc,             \* position of the control thread
    day,            \* day_name of the current run
    category,       \* topic_category of the current call / run
    env,            \* network and random outcomes met by get_topic_data
    raw_data,       \* value returned by get_topic_data
    netlog,         \* network calls made by get_topic_data, in order
    content,        \* value returned by create_list_content
    renv,           \* rendering outcomes met by create_videos
    video_files,    \* value returned by create_videos
    uenv,           \* platform outcomes met by upload_to_platforms
    upload_results, \* value returned by upload_to_platforms
    uplog,          \* upload calls made by upload_to_platforms, in order
    exc,            \* the exception in flight in generate_daily_content
    logged,         \* what the current run wrote to the log
    trace,          \* the pipeline steps the current run has called, in order
    uploader,       \* PlatformUploader: self.youtube, self.instagram
    videos,         \* rows of table videos of content_tracking.db
    topics_used,    \* rows of table topics_used
    videos0,        \* table videos when the current run started
    clock,          \* datetime.now(), counted in runs
    runs,           \* runs of generate_daily_content started so far
    args,           \* arguments of the method called on its own
    ret,            \* what that call returned
    hist,           \* earlier calls on the same object: their arguments and results
    sched           \* start_automation: the jobs of schedule and the time of day

locals == <<day, category, env, raw_data, netlog, content, renv, video_files,
            uenv, upload_results, uplog, exc, logged, trace>>

\* a method called on its own, outside a run
component == <<args, ret, hist, sched>>

vars == <<pc, locals, uploader, videos, topics_used, videos0, clock, runs, component>>

----------------------------------------------------------------------------
(* Bounds of the model *)

\* wikipedia.page outcomes are varied freely for topic numbers 1..WikiVar;
\* the topics after them fail or succeed together
WikiVar == 2

\* random draws (sample offsets, choices) are derived from 0..MaxRnd
MaxRnd == 2

\* runs of generate_daily_content in one behaviour of SpecRuns
MaxRuns == 2

\* analyze_performance calls between two runs of generate_daily_content
MaxAnalyses == 1

\* fact records in a bundle handed to the generator on its own
MaxItems == 12

\* calls of create_list_content on one generator object
MaxCalls == 2

\* sentences of a text handed to extract_interesting_fact on its own
MaxSentences == 3

\* words of a script handed to estimate_duration on its own
MaxWords == 620

----------------------------------------------------------------------------
(* Python helpers *)

None == "None"
NoValue == "-"

Return(v, calls) == [raised |-> FALSE, value |-> v, calls |-> calls]
Raise(calls) == [raised |-> TRUE, value |-> NoValue, calls |-> calls]

\* seq[:n]
Take(seq, n) == SubSeq(seq, 1, IF Len(seq) < n THEN Len(seq) ELSE n)

\* random.sample(population of size n, k): k distinct positions, in the drawn
\* order; the draw is the rotation that starts after position rnd
Sample(n, k, rnd) == [j \in 1..k |-> ((rnd + j - 1) % n) + 1]

\* random.choice(seq)
Choice(seq, rnd) == seq[(rnd % Len(seq)) + 1]

\* random.shuffle(seq): the permutation drawn is a rotation by rnd
Shuffle(seq, rnd) ==
    IF Len(seq) = 0 THEN seq
    ELSE [j \in 1..Len(seq) |-> seq[((rnd + j - 1) % Len(seq)) + 1]]

RECURSIVE Concat(_)
Concat(seqs) == IF Len(seqs) = 0 THEN <<>> ELSE Head(seqs) \o Concat(Tail(seqs))

----------------------------------------------------------------------------
(* DataCollector: the outside world *)

\* wikipedia.page(...) raises for topic / country number i
WikiRaises(e, i) == IF i <= WikiVar THEN i \in e.wikiDown ELSE e.wikiTailDown

\* the page wikipedia.page(topic) returns
Page(topic) ==
    [summary |-> "summary of " \o topic,
     content |-> "content of " \o topic,
     url     |-> "https://en.wikipedia.org/wiki/" \o topic]

\* element i of the list GET restcountries.com/v3.1/all returns
Country(i) ==
    [name       |-> "Country" \o ToString(i),
     capital    |-> "Capital" \o ToString(i),
     population |-> i * 300000,
     area       |-> i * 1000,
     region     |-> "Region",
     languages  |-> <<"Language">>,
     currencies |-> <<"CUR">>,
     flag       |-> "flag" \o ToString(i) \o ".png"]

\* JSON bodies of the APOD endpoint: a valid payload, one with an empty
\* explanation, one without the explanation key
ApodPayloads ==
    { [title |-> "Orion", explanation |-> "A nebula.", url |-> "apod.jpg", date |-> "2024-01-01"],
      [title |-> "Orion", explanation |-> "", url |-> "apod.jpg", date |-> "2024-01-01"],
      [title |-> "Orion", url |-> "apod.jpg", date |-> "2024-01-01"] }

ValidApod(p) == "explanation" \in DOMAIN p /\ p.explanation # ""

\* dict.get(key, default)
Get(d, key, default) == IF key \in DOMAIN d THEN d[key] ELSE default

\* outcomes of GET restcountries.com/v3.1/all: the call raises, or it returns a
\* list of ncountries countries
RestOutcomes ==
    {[rest |-> "raise", ncountries |-> 0]} \cup
    {[rest |-> "ok", ncountries |-> n] : n \in {14, 16}}

\* outcomes of GET api.nasa.gov/planetary/apod: the call raises, or it returns a
\* status and a JSON body
NasaOutcomes ==
    {[nasa |-> "raise", apod |-> <<>>], [nasa |-> "404", apod |-> <<>>]} \cup
    {[nasa |-> "200", apod |-> p] : p \in ApodPayloads}

\* an endpoint the call never contacts
RestUnused == [rest |-> "unused", ncountries |-> 0]
NasaUnused == [nasa |-> "unused", apod |-> <<>>]

\* random.sample(categories, 3) of get_trending_data: positions in its list
CatSamples == {s \in [1..3 -> 1..5] : \A i, j \in 1..3 : i # j => s[i] # s[j]}

MkEnv(r, n, down, tail, rnd, cs) ==
    [rest |-> r.rest, ncountries |-> r.ncountries, nasa |-> n.nasa, apod |-> n.apod,
     wikiDown |-> down, wikiTailDown |-> tail, rnd |-> rnd, catSample |-> cs]

\* every outcome of the network and of the random module that a call of
\* get_topic_data(c) can meet; an endpoint the category never contacts is unused
EnvsFor(c) ==
    LET usesRest == c \in {"geography", "trending"}
        usesNasa == c \in {"space", "trending"}
    IN  { MkEnv(r, n, down, tail, rnd, cs) :
            r \in (IF usesRest THEN RestOutcomes ELSE {RestUnused}),
            n \in (IF usesNasa THEN NasaOutcomes ELSE {NasaUnused}),
            down \in SUBSET (1..WikiVar),
            tail \in BOOLEAN,
            rnd \in 0..MaxRnd,
            cs \in (IF c = "trending" THEN CatSamples ELSE {<<1, 2, 3>>}) }

\* every network call raises
NetworkDown(e) ==
    /\ e.rest \in {"raise", "unused"}
    /\ e.nasa \in {"raise", "unused"}
    /\ e.wikiDown = 1..WikiVar
    /\ e.wikiTailDown

----------------------------------------------------------------------------
(* DataCollector *)

historical_topics ==
    <<"Ancient Egypt", "Roman Empire", "World War II", "Renaissance",
      "Industrial Revolution", "Cold War", "Ancient Greece", "Viking Age",
      "Mongol Empire", "American Revolution">>

science_topics ==
    <<"Quantum physics", "DNA", "Theory of relativity", "Evolution",
      "Photosynthesis", "Black holes", "Antibiotics", "Periodic table",
      "Genetics", "Climate change">>

space_topics ==
    <<"Black hole", "Solar System", "Mars exploration", "International Space Station",
      "Hubble Space Telescope", "Space exploration", "Milky Way", "Supernova",
      "Exoplanet", "Dark matter">>

tech_topics ==
    <<"Artificial Intelligence", "Quantum Computing", "Blockchain",
      "Internet of Things", "5G technology", "Cloud computing",
      "Machine Learning", "Virtual Reality", "Robotics", "Cybersecurity">>

psych_topics ==
    <<"Cognitive psychology", "Behavioral psychology", "Social psychology",
      "Developmental psychology", "Personality theory", "Mental health",
      "Psychological theories", "Human behavior", "Memory", "Emotions">>

trending_categories == <<"science", "history", "geography", "space", "technology">>

\* text[:n] + "..." if len(text) > n else text, on an abstract text
Truncated(text, n) == "[:" \o ToString(n) \o "] " \o text

\* extract_interesting_fact on an abstract text
extract_interesting_fact_of(text) == "fact from " \o text

extract_year_from_text(text) == "Unknown"

generate_importance_statement(topic, rnd) ==
    Choice(<<topic \o " revolutionized our understanding of the natural world.",
             "The discovery of " \o topic \o " changed the course of scientific history.",
             topic \o " remains one of the most important concepts in modern science.",
             "Understanding " \o topic \o " is crucial for advancing human knowledge.">>, rnd)

generate_tech_impact_statement(topic, rnd) ==
    Choice(<<topic \o " is revolutionizing how we live and work.",
             "The impact of " \o topic \o " on society is profound and far-reaching.",
             topic \o " represents a major breakthrough in technological advancement.",
             "The development of " \o topic \o " marks a new era in human innovation.">>, rnd)

generate_psychology_impact(topic, rnd) ==
    Choice(<<"Understanding " \o topic \o " helps us improve mental health and well-being.",
             "Research in " \o topic \o " has transformed our understanding of human behavior.",
             topic \o " provides crucial insights into human development and behavior.",
             "The study of " \o topic \o " continues to enhance our understanding of the mind.">>, rnd)

\* the loop "for topic in random.sample(topics, k): try: page = wikipedia.page(topic);
\* facts.append(record) except: continue": the sampled topic numbers whose page
\* lookup returns, in sample order
Fetched(sample, e) == SelectSeq(sample, LAMBDA i : ~WikiRaises(e, i))

WikiCalls(topics, sample) == [j \in 1..Len(sample) |-> "wiki:" \o topics[sample[j]]]

get_country_interesting_fact(i, e) ==
    IF WikiRaises(e, i)
    THEN Country(i).name \o " has unique geographical and cultural features."
    ELSE "sentence of " \o Page(Country(i).name).summary

get_fallback_geography_data ==
    [category |-> "geography",
     data |-> << [name |-> "United States", capital |-> "Washington, D.C.",
                  population |-> 331002651, area |-> 9833517,
                  interesting_fact |-> "The United States is home to all of Earth's five climate types."],
                 [name |-> "China", capital |-> "Beijing",
                  population |-> 1439323776, area |-> 9596961,
                  interesting_fact |-> "The Great Wall of China is not visible from space with the naked eye."],
                 [name |-> "Brazil", capital |-> "Brasilia",
                  population |-> 212559417, area |-> 8515770,
                  interesting_fact |-> "Brazil contains about 60% of the Amazon Rainforest."] >>,
     metadata |-> [total_countries |-> 3, data_source |-> "Fallback Data"]]

get_fallback_space_data ==
    [category |-> "space",
     data |-> << [topic |-> "Solar System",
                  summary |-> "Our Solar System consists of eight planets orbiting around the Sun.",
                  interesting_fact |-> "If the Sun were as tall as a typical front door, Earth would be the size of a nickel."],
                 [topic |-> "Mars",
                  summary |-> "Mars is often called the Red Planet due to its reddish appearance.",
                  interesting_fact |-> "Mars has the largest dust storms in our solar system."] >>,
     metadata |-> [topics_covered |-> 2, data_source |-> "Fallback Data"]]

get_fallback_technology_data ==
    [category |-> "technology",
     data |-> << [topic |-> "Artificial Intelligence",
                  summary |-> "AI is the simulation of human intelligence by machines.",
                  latest_developments |-> "AI systems can now generate human-like text and images.",
                  impact |-> "AI is transforming industries from healthcare to transportation."],
                 [topic |-> "Quantum Computing",
                  summary |-> "Quantum computers use quantum mechanics to process information.",
                  latest_developments |-> "Companies are developing quantum computers with increasing numbers of qubits.",
                  impact |-> "Quantum computing could revolutionize cryptography and drug discovery."] >>,
     metadata |-> [topics_covered |-> 2, data_source |-> "Fallback Data"]]

get_fallback_psychology_data ==
    [category |-> "psychology",
     data |-> << [topic |-> "Cognitive Psychology",
                  summary |-> "Cognitive psychology studies mental processes including thinking, learning, and memory.",
                  key_concepts |-> "Memory formation and retrieval are complex processes involving multiple brain regions.",
                  significance |-> "Understanding cognitive processes helps improve learning and decision-making."],
                 [topic |-> "Social Psychology",
                  summary |-> "Social psychology examines how people's thoughts and behaviors are influenced by others.",
                  key_concepts |-> "Group dynamics and social influence play crucial roles in human behavior.",
                  significance |-> "Social psychology insights help improve communication and relationships."] >>,
     metadata |-> [topics_covered |-> 2, data_source |-> "Fallback Data"]]

get_fallback_trending_data ==
    [category |-> "trending",
     data |-> << [topic |-> "Climate Change",
                  summary |-> "Global temperatures continue to rise due to human activities.",
                  interesting_fact |-> "The last decade was the warmest on record."],
                 [topic |-> "Space Exploration",
                  summary |-> "Private companies are making space travel more accessible.",
                  interesting_fact |-> "Reusable rockets have significantly reduced the cost of space launches."] >>,
     metadata |-> [topics_covered |-> 2, data_source |-> "Fallback Data"]]

\* get_geography_data returning every sampled country
get_geography_data_try_untruncated(e) ==
    IF e.rest = "raise" THEN Raise(<<"rest">>)
    ELSE IF e.ncountries < 15 THEN Raise(<<"rest">>)
    ELSE
      LET sample == Sample(e.ncountries, 15, e.rnd)
          interesting_facts ==
            [j \in 1..15 |->
               Country(sample[j]) @@
               [interesting_fact |-> get_country_interesting_fact(sample[j], e)]]
      IN  Return([category |-> "geography",
                  data |-> interesting_facts,
                  metadata |-> [total_countries |-> e.ncountries,
                                data_source |-> "REST Countries API"]],
                 <<"rest">> \o [j \in 1..15 |-> "wiki:" \o Country(sample[j]).name])

\* the try block of get_geography_data
get_geography_data_try(e) ==
    IF e.rest = "raise" THEN Raise(<<"rest">>)            \* requests.get raises
    ELSE IF e.ncountries < 15 THEN Raise(<<"rest">>)      \* random.sample: ValueError
    ELSE
      LET sample == Sample(e.ncountries, 15, e.rnd)
          interesting_facts ==
            [j \in 1..15 |->
               Country(sample[j]) @@
               [interesting_fact |-> get_country_interesting_fact(sample[j], e)]]
      IN  Return([category |-> "geography",
                  data |-> Take(interesting_facts, 10),
                  metadata |-> [total_countries |-> e.ncountries,
                                data_source |-> "REST Countries API"]],
                 <<"rest">> \o [j \in 1..15 |-> "wiki:" \o Country(sample[j]).name])

get_geography_data(e) ==
    LET r == get_geography_data_try(e)
    IN  IF r.raised THEN Return(get_fallback_geography_data, r.calls) ELSE r

get_history_data(e) ==
    LET sample == Sample(10, 10, e.rnd)
        ok == Fetched(sample, e)
        historical_facts ==
          [k \in 1..Len(ok) |->
             LET topic == historical_topics[ok[k]] IN
             [topic |-> topic,
              summary |-> Truncated(Page(topic).summary, 300),
              interesting_fact |-> extract_interesting_fact_of(Page(topic).summary),
              url |-> Page(topic).url]]
    IN  Return([category |-> "history",
                data |-> historical_facts,
                metadata |-> [topics_covered |-> Len(historical_facts),
                              data_source |-> "Wikipedia API"]],
               WikiCalls(historical_topics, sample))

get_science_data(e) ==
    LET sample == Sample(10, 10, e.rnd)
        ok == Fetched(sample, e)
        science_facts ==
          [k \in 1..Len(ok) |->
             LET topic == science_topics[ok[k]] IN
             [topic |-> topic,
              summary |-> Truncated(Page(topic).summary, 250),
              discovery_year |-> extract_year_from_text(Page(topic).summary),
              importance |-> generate_importance_statement(topic, e.rnd)]]
    IN  Return([category |-> "science",
                data |-> science_facts,
                metadata |-> [topics_covered |-> Len(science_facts),
                              data_source |-> "Wikipedia API"]],
               WikiCalls(science_topics, sample))

\* "if nasa_response.status_code == 200: space_facts.append({...})"
space_apod_facts_any_status(e) ==
    << [topic |-> "NASA Picture of the Day",
        title |-> Get(e.apod, "title", ""),
        explanation |-> Get(e.apod, "explanation", ""),
        image_url |-> Get(e.apod, "url", ""),
        date |-> Get(e.apod, "date", "")] >>

space_apod_facts(e) ==
    IF e.nasa = "200"
    THEN << [topic |-> "NASA Picture of the Day",
             title |-> Get(e.apod, "title", ""),
             explanation |-> Get(e.apod, "explanation", ""),
             image_url |-> Get(e.apod, "url", ""),
             date |-> Get(e.apod, "date", "")] >>
    ELSE <<>>

\* "for topic in random.sample(space_topics, 5): try: ... except: continue"
space_wiki_facts(e) ==
    LET ok == Fetched(Sample(10, 5, e.rnd), e)
    IN  [k \in 1..Len(ok) |->
           LET topic == space_topics[ok[k]] IN
           [topic |-> topic,
            summary |-> Truncated(Page(topic).summary, 300),
            interesting_fact |-> extract_interesting_fact_of(Page(topic).summary),
            url |-> Page(topic).url]]

space_bundle(space_facts) ==
    [category |-> "space",
     data |-> space_facts,
     metadata |-> [topics_covered |-> Len(space_facts),
                   data_source |-> <<"NASA API", "Wikipedia">>]]

get_space_data_try_wiki_first(e) ==
    IF e.nasa = "raise" THEN Raise(<<"nasa">>)
    ELSE Return(space_bundle(space_wiki_facts(e) \o space_apod_facts(e)),
                <<"nasa">> \o WikiCalls(space_topics, Sample(10, 5, e.rnd)))

\* the try block of get_space_data
get_space_data_try(e) ==
    IF e.nasa = "raise" THEN Raise(<<"nasa">>)            \* requests.get raises
    ELSE Return(space_bundle(space_apod_facts(e) \o space_wiki_facts(e)),
                <<"nasa">> \o WikiCalls(space_topics, Sample(10, 5, e.rnd)))

get_space_data(e) ==
    LET r == get_space_data_try(e)
    IN  IF r.raised THEN Return(get_fallback_space_data, r.calls) ELSE r

\* the try block of get_technology_data: nothing in it raises past the inner handler
get_technology_data_try(e) ==
    LET sample == Sample(10, 10, e.rnd)
        ok == Fetched(sample, e)
        tech_facts ==
          [k \in 1..Len(ok) |->
             LET topic == tech_topics[ok[k]] IN
             [topic |-> topic,
              summary |-> Truncated(Page(topic).summary, 250),
              latest_developments |-> extract_interesting_fact_of(Page(topic).content),
              impact |-> generate_tech_impact_statement(topic, e.rnd)]]
    IN  Return([category |-> "technology",
                data |-> tech_facts,
                metadata |-> [topics_covered |-> Len(tech_facts),
                              data_source |-> "Wikipedia"]],
               WikiCalls(tech_topics, sample))

get_technology_data(e) ==
    LET r == get_technology_data_try(e)
    IN  IF r.raised THEN Return(get_fallback_technology_data, r.calls) ELSE r

\* the try block of get_psychology_data
get_psychology_data_try(e) ==
    LET sample == Sample(10, 10, e.rnd)
        ok == Fetched(sample, e)
        psych_facts ==
          [k \in 1..Len(ok) |->
             LET topic == psych_topics[ok[k]] IN
             [topic |-> topic,
              summary |-> Truncated(Page(topic).summary, 300),
              key_concepts |-> extract_interesting_fact_of(Page(topic).content),
              significance |-> generate_psychology_impact(topic, e.rnd)]]
    IN  Return([category |-> "psychology",
                data |-> psych_facts,
                metadata |-> [topics_covered |-> Len(psych_facts),
                              data_source |-> "Wikipedia"]],
               WikiCalls(psych_topics, sample))

get_psychology_data(e) ==
    LET r == get_psychology_data_try(e)
    IN  IF r.raised THEN Return(get_fallback_psychology_data, r.calls) ELSE r

\* the try block of get_trending_data
get_trending_data_try(e) ==
    LET sub(c) ==
          CASE c = "science"   -> get_science_data(e)
            [] c = "history"   -> get_history_data(e)
            [] c = "geography" -> get_geography_data(e)
            [] c = "space"     -> get_space_data(e)
            [] OTHER           -> get_technology_data(e)
        parts == [j \in 1..3 |-> sub(trending_categories[e.catSample[j]])]
        trending_facts == Concat([j \in 1..3 |-> Take(parts[j].value.data, 3)])
        shuffled == Take(Shuffle(trending_facts, e.rnd), 10)
    IN  Return([category |-> "trending",
                data |-> shuffled,
                metadata |-> [topics_covered |-> Len(shuffled),
                              data_source |-> "Mixed Sources"]],
               Concat([j \in 1..3 |-> parts[j].calls]))

get_trending_data(e) ==
    LET r == get_trending_data_try(e)
    IN  IF r.raised THEN Return(get_fallback_trending_data, r.calls) ELSE r

get_topic_data(c, e) ==
    CASE c = "geography"  -> get_geography_data(e)
      [] c = "history"    -> get_history_data(e)
      [] c = "science"    -> get_science_data(e)
      [] c = "space"      -> get_space_data(e)
      [] c = "technology" -> get_technology_data(e)
      [] c = "psychology" -> get_psychology_data(e)
      [] OTHER            -> get_trending_data(e)

----------------------------------------------------------------------------
(* ContentGenerator *)

(* A text is a sequence of pieces, its value being their concatenation; a    *)
(* template keeps each replacement field "{}" as a piece of its own.         *)

Placeholder == "{}"

\* str.format(arg): every replacement field becomes arg
Format(template, arg) ==
    [i \in DOMAIN template |-> IF template[i] = Placeholder THEN arg ELSE template[i]]

\* str.lower() / str.upper() of a text
Lower(text) == [i \in DOMAIN text |-> "lower(" \o text[i] \o ")"]
Upper(str) == "upper(" \o str \o ")"

title_templates ==
    [geography |->
       << <<"10 Countries That Technically Don't Exist">>,
          <<"Mind-Blowing Facts About ", Placeholder, " Countries">>,
          <<"Countries With the Weirdest Laws You Won't Believe">>,
          <<"10 Places on Earth That Look Like Another Planet">> >>,
     history |->
       << <<"Historical Events That Changed Everything">>,
          <<"10 Mysteries From History We Still Can't Solve">>,
          <<"Shocking Facts About ", Placeholder, " That Schools Don't Teach">>,
          <<"Historical Figures Who Were Actually Terrible People">> >>,
     science |->
       << <<"Scientific Facts That Will Blow Your Mind">>,
          <<"10 Scientific Discoveries That Shocked the World">>,
          <<"Science Facts That Sound Fake But Are True">>,
          <<"Mind-Bending Scientific Phenomena Explained">> >>]

default_title_templates == << <<"10 Amazing Facts About ", Placeholder>> >>

geography_fillers == <<"Amazing", "Incredible", "Shocking">>
history_fillers == <<"Ancient Times", "The Past", "World History">>

hooks ==
    << <<"You won't believe what I discovered about ", Placeholder, "...">>,
       <<"Most people have no idea that ", Placeholder, "...">>,
       <<"This is going to completely change how you think about ", Placeholder, "...">>,
       <<"I spent hours researching this, and what I found shocked me...">>,
       <<"Number 3 on this list will absolutely blow your mind...">> >>

\* the random draws of one create_list_content call: positions of the title
\* template, of the filler word and of the hook
Choices(templates, fillers, hookset) ==
    [template : templates, filler : fillers, hook : hookset]

templates_of(c) ==
    IF c \in DOMAIN title_templates THEN title_templates[c] ELSE default_title_templates

generate_title_unformatted(data, c, ch) ==
    Choice(templates_of(c), ch.template)

generate_title(data, c, ch) ==
    LET templates == templates_of(c)
        template == Choice(templates, ch.template)
    IN  IF c = "geography" THEN Format(template, Choice(geography_fillers, ch.filler))
        ELSE IF c = "history" THEN Format(template, Choice(history_fillers, ch.filler))
        ELSE template

\* f"{num/1_000_000:.1f} million": one decimal, rounded
OneDecimal(num, unit) ==
    LET tenths == (num + unit \div 20) \div (unit \div 10)
    IN  ToString(tenths \div 10) \o "." \o ToString(tenths % 10)

format_number(num) ==
    IF num >= 1000000 THEN OneDecimal(num, 1000000) \o " million"
    ELSE IF num >= 1000 THEN OneDecimal(num, 1000) \o " thousand"
    ELSE ToString(num)

format_list_item(number, item) ==
    IF "name" \in DOMAIN item
    THEN <<"Number ", ToString(number), ": ", item.name, ". ",
           Get(item, "interesting_fact", "This country has unique features."),
           " With a population of ", format_number(Get(item, "population", 0)),
           ", it's truly fascinating.">>
    ELSE IF "topic" \in DOMAIN item
    THEN <<"Number ", ToString(number), ": ", item.topic, ". ",
           Get(item, "summary", "This topic is incredibly important."),
           " ", Get(item, "importance", "")>>
    ELSE <<"Number ", ToString(number), ": ", ToString(item)>>

generate_list_items_all(data_items) ==
    Concat([i \in 1..Len(data_items) |-> format_list_item(i, data_items[i]) \o <<" ">>])

\* "for i, item in enumerate(data_items[:10], 1): list_script += item_script + ' '"
\* (every item of a fact list is a dict)
generate_list_items(data_items) ==
    LET top == Take(data_items, 10)
    IN  Concat([i \in 1..Len(top) |-> format_list_item(i, top[i]) \o <<" ">>])

script_conclusion ==
    <<"Which fact surprised you the most? Let me know in the comments below! And if you enjoyed this video, smash that like button and subscribe for more incredible content like this!">>

generate_script(data, title, c, ch) ==
    LET hook == Format(Choice(hooks, ch.hook), c)
        intro == <<"Welcome back to the channel! Today we're diving into ">> \o Lower(title)
                 \o <<". Make sure to subscribe and hit that notification bell because this content is absolutely mind-blowing!">>
        list_items == generate_list_items(data.data)
    IN  [hook |-> hook,
         intro |-> intro,
         list_items |-> list_items,
         conclusion |-> script_conclusion,
         full_script |-> hook \o <<" ">> \o intro \o <<" ">> \o list_items \o <<" ">> \o script_conclusion]

category_tags ==
    [geography |-> <<"countries", "geography", "world facts", "travel", "educational">>,
     history |-> <<"history", "historical facts", "ancient", "past events", "educational">>,
     science |-> <<"science", "scientific facts", "discoveries", "research", "educational">>,
     space |-> <<"space", "astronomy", "nasa", "universe", "cosmos">>,
     technology |-> <<"technology", "tech facts", "innovation", "future", "gadgets">>]

generate_metadata(title, c) ==
    [description |-> <<"Discover amazing facts in this educational video about ", c, ". ">>
                     \o title \o <<" - Subscribe for more incredible content!">>,
     tags |-> Get(category_tags, c, <<"educational", "facts", "top 10">>),
     thumbnail_text |-> <<"TOP 10\n", Upper(c), "\nFACTS">>]

(* Python floats: IEEE-754 binary64, round to nearest, ties to even.  A      *)
(* positive float is [mant, exp]: mant its 53 significant bits, the first    *)
(* one 1, and exp the weight of that first bit (the value is                 *)
(* mant * 2^(exp - 52)); zero has no bits.  Bit lists have the most          *)
(* significant bit first.                                                    *)

Precision == 53

FloatZero == [mant |-> <<>>, exp |-> 0]

\* most bits handled as one int, so that a chunk times a small int is an int
Chunk == 18

\* the w low binary digits of n
BitsOfWidth(n, w) == [i \in 1..w |-> (n \div 2^(w - i)) % 2]

\* number of binary digits of n < 2^30, 0 for 0
BitLength(n) == CHOOSE w \in 0..30 : n < 2^w /\ (w = 0 \/ n >= 2^(w - 1))

\* the binary digits of a natural number, none for 0
BitsOf(n) == BitsOfWidth(n, BitLength(n))

\* digit i of a digit sequence, 0 in front of it
Digit(bits, i) == IF i < 1 THEN 0 ELSE bits[i]

\* the number the six digits up to digit i are
SixDigits(bits, i) ==
    Digit(bits, i) + 2 * Digit(bits, i - 1) + 4 * Digit(bits, i - 2)
      + 8 * Digit(bits, i - 3) + 16 * Digit(bits, i - 4) + 32 * Digit(bits, i - 5)

\* the number a sequence of at most 30 binary digits is
ValueOf(bits) ==
    LET n == Len(bits)
    IN  SixDigits(bits, n) + 2^6 * SixDigits(bits, n - 6) + 2^12 * SixDigits(bits, n - 12)
          + 2^18 * SixDigits(bits, n - 18) + 2^24 * SixDigits(bits, n - 24)

RECURSIVE TimesPlus(_, _, _)
\* bits * k + carry for small k and carry, a chunk at a time from the low end
TimesPlus(bits, k, carry) ==
    IF bits = <<>> THEN BitsOf(carry)
    ELSE LET w == IF Len(bits) < Chunk THEN Len(bits) ELSE Chunk
             t == ValueOf(SubSeq(bits, Len(bits) - w + 1, Len(bits))) * k + carry
         IN  TimesPlus(SubSeq(bits, 1, Len(bits) - w), k, t \div 2^w)
               \o BitsOfWidth(t % 2^w, w)

\* a number given by its bits (the first one 1, of weight 2^exp) and by whether
\* anything nonzero follows them, rounded to a float
RoundToFloat(bits, exp, rest) ==
    LET padded == IF Len(bits) > Precision THEN bits
                  ELSE bits \o [i \in 1..(Precision + 1 - Len(bits)) |-> 0]
        kept == SubSeq(padded, 1, Precision)
        guard == padded[Precision + 1]
        sticky == rest \/ \E i \in (Precision + 2)..Len(padded) : padded[i] = 1
        up == guard = 1 /\ (sticky \/ kept[Precision] = 1)
        sum == IF up THEN TimesPlus(kept, 1, 1) ELSE kept
    IN  IF Len(sum) > Precision
        THEN [mant |-> SubSeq(sum, 1, Precision), exp |-> exp + 1]
        ELSE [mant |-> sum, exp |-> exp]

RECURSIVE QuotientBits(_, _, _)
\* the first k binary digits of r / d after the point, for r < d < 2^13,
\* a chunk at a time
QuotientBits(r, d, k) ==
    IF k = 0 THEN <<>>
    ELSE LET w == IF k < Chunk THEN k ELSE Chunk
         IN  BitsOfWidth((r * 2^w) \div d, w) \o QuotientBits((r * 2^w) % d, d, k - w)

RECURSIVE QuotientRest(_, _, _)
\* what is left of r / d after those k digits
QuotientRest(r, d, k) ==
    IF k = 0 THEN r
    ELSE LET w == IF k < Chunk THEN k ELSE Chunk
         IN  QuotientRest((r * 2^w) % d, d, k - w)

RECURSIVE LeadingZeros(_, _)
\* zeros after the point before the first 1 of r / d, for 0 < r < d
LeadingZeros(r, d) == IF 2 * r >= d THEN 0 ELSE 1 + LeadingZeros(2 * r, d)

\* n / d for ints n >= 0, d > 0: the quotient correctly rounded
float_div(n, d) ==
    IF n = 0 THEN FloatZero
    ELSE LET whole == BitsOf(n \div d)
             r == n % d
         IN  IF whole # <<>>
             THEN LET k == Precision + 1 - Len(whole)
                  IN  RoundToFloat(whole \o QuotientBits(r, d, k), Len(whole) - 1,
                                   QuotientRest(r, d, k) # 0)
             ELSE LET z == LeadingZeros(r, d)
                      k == z + Precision + 1
                  IN  RoundToFloat(SubSeq(QuotientBits(r, d, k), z + 1, k), -(z + 1),
                                   QuotientRest(r, d, k) # 0)

\* x * k for a float x and a small int k > 0: the product correctly rounded
float_mul(x, k) ==
    IF x = FloatZero THEN FloatZero
    ELSE LET product == TimesPlus(x.mant, k, 0)
         IN  RoundToFloat(product, x.exp + Len(product) - Precision, FALSE)

\* int(x) for a float x >= 0 below 2^31: the digits before the point
float_int(x) ==
    IF x = FloatZero \/ x.exp < 0 THEN 0
    ELSE ValueOf(SubSeq(x.mant, 1, x.exp + 1))

\* float(n) for an int n >= 0
float_of(n) == float_div(n, 1)

Zeros(n) == IF n = 0 THEN <<>> ELSE [i \in 1..n |-> 0]

RECURSIVE PlusBits(_, _, _)
\* a + b + carry for digit sequences of one length, a chunk at a time from the
\* low end
PlusBits(a, b, carry) ==
    IF a = <<>> THEN BitsOf(carry)
    ELSE LET n == Len(a)
             w == IF n < Chunk THEN n ELSE Chunk
             t == ValueOf(SubSeq(a, n - w + 1, n)) + ValueOf(SubSeq(b, n - w + 1, n)) + carry
         IN  PlusBits(SubSeq(a, 1, n - w), SubSeq(b, 1, n - w), t \div 2^w)
               \o BitsOfWidth(t % 2^w, w)

\* x + y for floats x, y >= 0: the sum correctly rounded
float_add(x, y) ==
    IF x = FloatZero THEN y
    ELSE IF y = FloatZero THEN x
    ELSE LET hi == IF x.exp >= y.exp THEN x ELSE y
             lo == IF x.exp >= y.exp THEN y ELSE x
             shift == hi.exp - lo.exp
             a == hi.mant \o Zeros(shift)
             sum == PlusBits(a, Zeros(shift) \o lo.mant, 0)
         IN  RoundToFloat(sum, hi.exp + Len(sum) - Len(a), FALSE)

\* a float x >= 1 and an int n differ by less than 2^-20
float_near(x, n) ==
    LET whole == float_int(x)
        frac == SubSeq(x.mant, x.exp + 2, x.exp + 21)
    IN  \/ whole = n /\ \A i \in DOMAIN frac : frac[i] = 0
        \/ whole = n - 1 /\ \A i \in DOMAIN frac : frac[i] = 1

(* A script handed to estimate_duration is given word by word: a piece is a *)
(* run of whitespace or a run of other characters.                          *)

Whitespace == {" ", "\n", "  "}

\* number of items of str.split(): the maximal runs of pieces that are not whitespace
split_count(text) ==
    Cardinality({i \in DOMAIN text :
                   /\ text[i] \notin Whitespace
                   /\ (i = 1 \/ text[i - 1] \in Whitespace)})

\* int((word_count / 150) * 60) for a word count
seconds_of(word_count) == float_int(float_mul(float_div(word_count, 150), 60))

estimate_duration_seconds_of_minute(script) ==
    CHOOSE seconds \in {seconds_of(word_count) % 60 :
                           word_count \in {split_count(script.full_script)}} : TRUE

\* word_count = len(script['full_script'].split()); int((word_count / 150) * 60)
estimate_duration(script) ==
    CHOOSE seconds \in {seconds_of(word_count) :
                           word_count \in {split_count(script.full_script)}} : TRUE

create_list_content_counts_calls(data, c, ch) ==
    LET title == generate_title(data, c, ch)
        drawn == [ch EXCEPT !.hook = (ch.hook + Len(hist)) % Len(hooks)]
    IN  Return([title |-> title,
                script |-> generate_script(data, title, c, drawn),
                category |-> c,
                metadata |-> generate_metadata(title, c),
                raw_data |-> data],
               <<>>)

\* lines 46-65; the entry 'estimated_duration' (line 64), which no step of a
\* run reads, is left to estimate_duration called on its own
create_list_content(data, c, ch) ==
    LET title == generate_title(data, c, ch)
    IN  Return([title |-> title,
                script |-> generate_script(data, title, c, ch),
                category |-> c,
                metadata |-> generate_metadata(title, c),
                raw_data |-> data],
               <<>>)

----------------------------------------------------------------------------
(* VideoCreator *)

\* outcomes of the libraries one create_videos call uses (gTTS, PIL, moviepy):
\* each of the three artifacts is produced, or a library call raises on the way
RenderOutcomes ==
    [voiceover : {"ok", "raise"}, long : {"ok", "raise"}, short : {"ok", "raise"}]

\* the try block of create_voiceover
create_voiceover_try(script, r) ==
    IF r.voiceover = "raise" THEN Raise(<<>>)
    ELSE Return("temp/voiceover.mp3", <<>>)

\* the handler logs and falls off the end of the function: None
create_voiceover(script, r) ==
    LET x == create_voiceover_try(script, r)
    IN  IF x.raised THEN Return(None, <<>>) ELSE x

\* "clip_duration = total_duration / len(data_items)": ZeroDivisionError
create_content_clips_raises(cnt) == Len(Take(cnt.raw_data.data, 10)) = 0

FallbackDuration == 480
TitleSeconds == 5
OutroSeconds == 5

(* A clip is given by what it shows and by its duration, a float; a timeline *)
(* is the list of clips handed to concatenate_videoclips.                    *)

create_title_screen(title, duration) ==
    [kind |-> "title", text |-> title, duration |-> float_of(duration)]

create_outro_screen(duration) ==
    [kind |-> "outro", text |-> "SUBSCRIBE", duration |-> float_of(duration)]

create_fact_clip(fact_data, number, duration) ==
    [kind |-> "fact", text |-> fact_data, number |-> number, duration |-> duration]

\* create_content_clips with every clip as long as all of them together
create_content_clips_undivided(cnt, total_duration) ==
    LET data_items == Take(cnt.raw_data.data, 10)
    IN  [i \in 1..Len(data_items) |->
           create_fact_clip(data_items[i], i, float_of(total_duration))]

\* lines 237-249, for a list data_items that is not empty and an int total_duration
create_content_clips(cnt, total_duration) ==
    LET data_items == Take(cnt.raw_data.data, 10)
        clip_duration == float_div(total_duration, Len(data_items))
    IN  [i \in 1..Len(data_items) |-> create_fact_clip(data_items[i], i, clip_duration)]

\* lines 81-85: the voiceover's duration, in whole seconds, when there is one
video_duration_of(audio_file, audio_duration) ==
    IF audio_file # None THEN audio_duration ELSE FallbackDuration

\* lines 87-100: the list clips of create_long_form_video
long_form_clips(cnt, audio_file, audio_duration) ==
    LET video_duration == video_duration_of(audio_file, audio_duration)
    IN  <<create_title_screen(cnt.title, TitleSeconds)>>
          \o create_content_clips(cnt, video_duration - 10)
          \o <<create_outro_screen(OutroSeconds)>>

RECURSIVE DurationFrom(_, _, _)
\* concatenate_videoclips: the running sum of the durations, end being the end
\* on the timeline of the clip before clip i
DurationFrom(clips, i, end) ==
    IF i > Len(clips) THEN end
    ELSE CHOOSE total \in {DurationFrom(clips, i + 1, next) :
                             next \in {float_add(end, clips[i].duration)}} : TRUE

\* duration of concatenate_videoclips(clips)
concatenated_duration(clips) == DurationFrom(clips, 1, FloatZero)

\* the try block of create_long_form_video
create_long_form_video_try(cnt, audio_file, r) ==
    IF r.long = "raise" THEN Raise(<<>>)
    ELSE IF create_content_clips_raises(cnt) THEN Raise(<<>>)
    ELSE Return("generated_videos/long_form_" \o cnt.category \o ".mp4", <<>>)

create_long_form_video_reports_path(cnt, audio_file, r) ==
    Return("generated_videos/long_form_" \o cnt.category \o ".mp4", <<>>)

\* create_long_form_video without its handler
create_long_form_video_propagates(cnt, audio_file, r) ==
    create_long_form_video_try(cnt, audio_file, r)

create_long_form_video(cnt, audio_file, r) ==
    LET x == create_long_form_video_try(cnt, audio_file, r)
    IN  IF x.raised THEN Return(None, <<>>) ELSE x

\* the try block of create_short_form_video
create_short_form_video_try(cnt, audio_file, r) ==
    IF r.short = "raise" THEN Raise(<<>>)
    ELSE Return("generated_videos/short_form_" \o cnt.category \o ".mp4", <<>>)

create_short_form_video(cnt, audio_file, r) ==
    LET x == create_short_form_video_try(cnt, audio_file, r)
    IN  IF x.raised THEN Return(None, <<>>) ELSE x

HookSeconds == 3
ShortFactSeconds == 10
CtaSeconds == 5
ShortFacts == 3
ShortsLimit == 60

create_vertical_text_clip(text, duration) ==
    [kind |-> "text", text |-> text, duration |-> duration]

create_vertical_fact_clip(fact_data, number, duration) ==
    [kind |-> "fact", text |-> fact_data, number |-> number, duration |-> duration]

\* the list clips with a card for every fact record
short_form_clips_every_fact(cnt) ==
    <<create_vertical_text_clip(cnt.script.hook, HookSeconds)>>
      \o [i \in 1..Len(cnt.raw_data.data) |->
            create_vertical_fact_clip(cnt.raw_data.data[i], i, ShortFactSeconds)]
      \o <<create_vertical_text_clip(<<"Follow for more amazing facts!">>, CtaSeconds)>>

\* lines 151-164: the list clips of create_short_form_video
short_form_clips(cnt) ==
    LET shown == IF Len(cnt.raw_data.data) < ShortFacts THEN Len(cnt.raw_data.data)
                 ELSE ShortFacts
    IN  <<create_vertical_text_clip(cnt.script.hook, HookSeconds)>>
          \o [i \in 1..shown |->
                create_vertical_fact_clip(cnt.raw_data.data[i], i, ShortFactSeconds)]
          \o <<create_vertical_text_clip(<<"Follow for more amazing facts!">>, CtaSeconds)>>

\* line 145, "video_duration = min(short_audio.duration, 60)": a value nothing
\* in the function reads afterwards
short_video_duration(short_audio_duration) ==
    IF short_audio_duration < ShortsLimit THEN short_audio_duration ELSE ShortsLimit

RECURSIVE SecondsUpTo(_, _)
\* concatenate_videoclips on clips whose durations are ints: the running sum
SecondsUpTo(clips, i) ==
    IF i = 0 THEN 0 ELSE SecondsUpTo(clips, i - 1) + clips[i].duration

concatenated_seconds(clips) == SecondsUpTo(clips, Len(clips))

\* the try block of create_videos; calls names the methods it called
create_videos_try(cnt, r) ==
    LET audio == create_voiceover(cnt.script, r)
        long == create_long_form_video(cnt, audio.value, r)
        short == create_short_form_video(cnt, audio.value, r)
    IN  IF audio.raised THEN Raise(<<"create_voiceover">>)
        ELSE IF long.raised
        THEN Raise(<<"create_voiceover", "create_long_form_video">>)
        ELSE IF short.raised
        THEN Raise(<<"create_voiceover", "create_long_form_video", "create_short_form_video">>)
        ELSE Return([long_form |-> long.value,
                     short_form |-> short.value,
                     audio |-> audio.value],
                    <<"create_voiceover", "create_long_form_video", "create_short_form_video">>)

\* the handler returns {}
create_videos(cnt, r) ==
    LET x == create_videos_try(cnt, r)
    IN  IF x.raised THEN Return(<<>>, x.calls) ELSE x

----------------------------------------------------------------------------
(* PlatformUploader *)

\* the API clients __init__ keeps: initialize_youtube and initialize_instagram
\* return a client, or None when the credentials are missing or refused
UploaderStates == [youtube : {"client", None}, instagram : {"client", None}]

\* outcomes of the platform APIs during one upload_to_platforms call
UploadOutcomes ==
    [youtube : {"ok", "raise"}, instagram : {"ok", "raise", "nomedia"}, shorts : {"ok", "raise"}]

\* Python truth value of a path or None
Truthy(v) == v # None /\ v # ""

\* the try block of upload_to_youtube
upload_to_youtube_try(up, video_file, u) ==
    IF up.youtube = None THEN Raise(<<"youtube">>)
    ELSE IF u.youtube = "raise" THEN Raise(<<"youtube">>)
    ELSE Return("https://youtu.be/video_id", <<"youtube">>)

upload_to_youtube(up, video_file, u) ==
    LET x == upload_to_youtube_try(up, video_file, u)
    IN  IF x.raised THEN Return(None, x.calls) ELSE x

\* the try block of upload_to_instagram
upload_to_instagram_try(up, video_file, u) ==
    IF up.instagram = None THEN Raise(<<"instagram">>)
    ELSE IF u.instagram = "raise" THEN Raise(<<"instagram">>)
    ELSE IF u.instagram = "nomedia" THEN Return(None, <<"instagram">>)
    ELSE Return("https://instagram.com/p/code", <<"instagram">>)

upload_to_instagram(up, video_file, u) ==
    LET x == upload_to_instagram_try(up, video_file, u)
    IN  IF x.raised THEN Return(None, x.calls) ELSE x

\* the try block of upload_to_youtube_shorts
upload_to_youtube_shorts_try(up, video_file, u) ==
    IF up.youtube = None THEN Raise(<<"youtube_shorts">>)
    ELSE IF u.shorts = "raise" THEN Raise(<<"youtube_shorts">>)
    ELSE Return("https://youtube.com/shorts/video_id", <<"youtube_shorts">>)

upload_to_youtube_shorts(up, video_file, u) ==
    LET x == upload_to_youtube_shorts_try(up, video_file, u)
    IN  IF x.raised THEN Return(None, x.calls) ELSE x

EmptyDict == <<>>

upload_to_platforms_stops_at_failure(up, files, cnt, u) ==
    LET long == Get(files, "long_form", None)
        short == Get(files, "short_form", None)
        yt == upload_to_youtube(up, long, u)
        ig == upload_to_instagram(up, short, u)
        sh == upload_to_youtube_shorts(up, short, u)
    IN  IF Truthy(long) /\ yt.value = None THEN Raise(yt.calls)
        ELSE IF Truthy(short) /\ ig.value = None
        THEN Raise((IF Truthy(long) THEN yt.calls ELSE <<>>) \o ig.calls)
        ELSE Return((IF Truthy(long) THEN [youtube_url |-> yt.value] ELSE EmptyDict) @@
                    (IF Truthy(short)
                     THEN [instagram_url |-> ig.value, youtube_shorts_url |-> sh.value]
                     ELSE EmptyDict),
                    (IF Truthy(long) THEN yt.calls ELSE <<>>) \o
                    (IF Truthy(short) THEN ig.calls \o sh.calls ELSE <<>>))

upload_to_platforms_ignores_absence(up, files, cnt, u) ==
    LET long == Get(files, "long_form", None)
        short == Get(files, "short_form", None)
        yt == upload_to_youtube(up, long, u)
        ig == upload_to_instagram(up, short, u)
        sh == upload_to_youtube_shorts(up, short, u)
    IN  Return([youtube_url |-> yt.value, instagram_url |-> ig.value,
                youtube_shorts_url |-> sh.value],
               yt.calls \o ig.calls \o sh.calls)

upload_to_platforms(up, files, cnt, u) ==
    LET long == Get(files, "long_form", None)
        short == Get(files, "short_form", None)
        yt == upload_to_youtube(up, long, u)
        ig == upload_to_instagram(up, short, u)
        sh == upload_to_youtube_shorts(up, short, u)
        raised == \/ Truthy(long) /\ yt.raised
                  \/ Truthy(short) /\ (ig.raised \/ sh.raised)
    IN  IF raised THEN Raise(<<>>)
        ELSE Return((IF Truthy(long) THEN [youtube_url |-> yt.value] ELSE EmptyDict) @@
                    (IF Truthy(short)
                     THEN [instagram_url |-> ig.value, youtube_shorts_url |-> sh.value]
                     ELSE EmptyDict),
                    (IF Truthy(long) THEN yt.calls ELSE <<>>) \o
                    (IF Truthy(short) THEN ig.calls \o sh.calls ELSE <<>>))

----------------------------------------------------------------------------
(* YouTubeAutomationSystem *)

content_schedule ==
    [monday |-> "geography", tuesday |-> "history", wednesday |-> "science",
     thursday |-> "technology", friday |-> "psychology", saturday |-> "space",
     sunday |-> "trending"]

\* today.strftime('%A').lower()
Days == DOMAIN content_schedule

\* INSERT INTO videos (title, topic_category, created_date, youtube_url,
\* instagram_url) under the schema of setup_database: id INTEGER PRIMARY KEY,
\* title TEXT UNIQUE, views DEFAULT 0, engagement_rate DEFAULT 0.0
sqlite_insert_video_overwrites(table, title, topic_category, created_date, youtube_url, instagram_url) ==
    LET row == [id |-> Len(table) + 1, title |-> title, topic_category |-> topic_category,
                created_date |-> created_date, youtube_url |-> youtube_url,
                instagram_url |-> instagram_url, views |-> 0, engagement_rate |-> 0]
    IN  IF \E i \in 1..Len(table) : table[i].title = title
        THEN Return([i \in 1..Len(table) |->
                       IF table[i].title = title THEN [row EXCEPT !.id = i] ELSE table[i]], <<>>)
        ELSE Return(Append(table, row), <<>>)

sqlite_insert_video_no_constraint(table, title, topic_category, created_date, youtube_url, instagram_url) ==
    Return(Append(table,
                  [id |-> Len(table) + 1, title |-> title, topic_category |-> topic_category,
                   created_date |-> created_date, youtube_url |-> youtube_url,
                   instagram_url |-> instagram_url, views |-> 0, engagement_rate |-> 0]), <<>>)

sqlite_insert_video(table, title, topic_category, created_date, youtube_url, instagram_url) ==
    IF \E i \in 1..Len(table) : table[i].title = title
    THEN Raise(<<>>)                                  \* sqlite3.IntegrityError
    ELSE Return(Append(table,
                       [id |-> Len(table) + 1, title |-> title, topic_category |-> topic_category,
                        created_date |-> created_date, youtube_url |-> youtube_url,
                        instagram_url |-> instagram_url, views |-> 0, engagement_rate |-> 0]), <<>>)

\* save_video_record writing '' for a URL that is None
save_video_record_blank_urls(table, c, results, now) ==
    LET blank(v) == IF v = None THEN "" ELSE v
    IN  sqlite_insert_video(table, c.title, c.category, now,
                            blank(Get(results, "youtube_url", "")),
                            blank(Get(results, "instagram_url", "")))

\* save_video_record storing the Shorts URL where there is no YouTube URL
save_video_record_keeps_shorts(table, c, results, now) ==
    LET youtube_url == Get(results, "youtube_url", "")
    IN  sqlite_insert_video(table, c.title, c.category, now,
                            IF Truthy(youtube_url) THEN youtube_url
                            ELSE Get(results, "youtube_shorts_url", ""),
                            Get(results, "instagram_url", ""))

save_video_record(table, c, results, now) ==
    sqlite_insert_video(table, c.title, c.category, now,
                        Get(results, "youtube_url", ""),
                        Get(results, "instagram_url", ""))

\* the statements of the try block of generate_daily_content, in order
next_step_upload_first(step) ==
    CASE step = "collect"  -> "generate"
      [] step = "generate" -> "upload"
      [] step = "upload"   -> "create"
      [] step = "create"   -> "save"
      [] step = "save"     -> "done"

next_step(step) ==
    CASE step = "collect"  -> "generate"
      [] step = "generate" -> "create"
      [] step = "create"   -> "upload"
      [] step = "upload"   -> "save"
      [] step = "save"     -> "done"

\* "except Exception as e": the exception classes the handler catches
caught_by_handler_none(e) == FALSE

caught_by_handler(e) == e \in {"sqlite3.IntegrityError", "Exception"}

ErrorLine == "ERROR Error in daily content generation"
SuccessLine == "INFO Daily content generation completed successfully!"

NoEnv == [rest |-> "-"]
NoOutcome == [none |-> "-"]

LocalsInit ==
    /\ day = NoValue
    /\ category = NoValue
    /\ env = NoEnv
    /\ raw_data = NoValue
    /\ netlog = <<>>
    /\ content = NoValue
    /\ renv = NoOutcome
    /\ video_files = NoValue
    /\ uenv = NoOutcome
    /\ upload_results = NoValue
    /\ uplog = <<>>
    /\ exc = NoValue
    /\ logged = <<>>
    /\ trace = <<>>
    /\ args = NoValue
    /\ sched = NoValue
    /\ ret = NoValue
    /\ hist = <<>>

\* generate_daily_content is entered: lines 76-80
StartRun(days, limit) ==
    /\ pc \in {"idle", "done", "crashed"}
    /\ runs < limit
    /\ \E d \in days :
         /\ day' = d
         /\ category' = Get(content_schedule, d, "general")
    /\ env' = NoEnv /\ raw_data' = NoValue /\ netlog' = <<>>
    /\ content' = NoValue /\ renv' = NoOutcome /\ video_files' = NoValue
    /\ uenv' = NoOutcome /\ upload_results' = NoValue /\ uplog' = <<>>
    /\ exc' = NoValue /\ logged' = <<>> /\ trace' = <<>>
    /\ videos0' = videos
    /\ clock' = clock + 1
    /\ runs' = runs + 1
    /\ pc' = "collect"
    /\ UNCHANGED <<uploader, videos, topics_used>>
    /\ UNCHANGED component

\* where control goes after a step
After(step, r) == IF r.raised THEN "except" ELSE next_step(step)

\* the collector outcomes a pipeline run is checked with: every endpoint up,
\* and every endpoint down
RunEnvsFor(c) ==
    LET usesRest == c \in {"geography", "trending"}
        usesNasa == c \in {"space", "trending"}
        up == MkEnv(IF usesRest THEN [rest |-> "ok", ncountries |-> 16] ELSE RestUnused,
                    IF usesNasa
                    THEN [nasa |-> "200",
                          apod |-> CHOOSE p \in ApodPayloads : ValidApod(p)]
                    ELSE NasaUnused,
                    {}, FALSE, 0, <<1, 2, 3>>)
        down == MkEnv(IF usesRest THEN [rest |-> "raise", ncountries |-> 0] ELSE RestUnused,
                      IF usesNasa THEN [nasa |-> "raise", apod |-> <<>>] ELSE NasaUnused,
                      1..WikiVar, TRUE, 0, <<1, 2, 5>>)
    IN  {up, down}

\* 1. raw_data = self.data_collector.get_topic_data(topic_category)
Collect ==
    /\ pc = "collect"
    /\ \E e \in RunEnvsFor(category) :
         LET r == get_topic_data(category, e) IN
         /\ env' = e
         /\ raw_data' = r.value
         /\ netlog' = r.calls
         /\ exc' = IF r.raised THEN "Exception" ELSE exc
         /\ pc' = After("collect", r)
    /\ trace' = Append(trace, "collect")
    /\ UNCHANGED <<day, category, content, renv, video_files, uenv, upload_results,
                   uplog, logged, uploader, videos, topics_used, videos0, clock, runs>>
    /\ UNCHANGED component

\* 2. content = self.content_generator.create_list_content(raw_data, topic_category)
Generate(choices) ==
    /\ pc = "generate"
    /\ \E ch \in choices :
         LET r == create_list_content(raw_data, category, ch) IN
         /\ content' = r.value
         /\ exc' = IF r.raised THEN "Exception" ELSE exc
         /\ pc' = After("generate", r)
    /\ trace' = Append(trace, "generate")
    /\ UNCHANGED <<day, category, env, raw_data, netlog, renv, video_files, uenv,
                   upload_results, uplog, logged, uploader, videos, topics_used,
                   videos0, clock, runs>>
    /\ UNCHANGED component

\* 3. video_files = self.video_creator.create_videos(content)
Create(renvs) ==
    /\ pc = "create"
    /\ \E r \in renvs :
         LET x == create_videos(content, r) IN
         /\ renv' = r
         /\ video_files' = x.value
         /\ exc' = IF x.raised THEN "Exception" ELSE exc
         /\ pc' = After("create", x)
    /\ trace' = Append(trace, "create")
    /\ UNCHANGED <<day, category, env, raw_data, netlog, content, uenv,
                   upload_results, uplog, logged, uploader, videos, topics_used,
                   videos0, clock, runs>>
    /\ UNCHANGED component

\* the platform outcomes as the call meets them: an upload that is not attempted
\* meets none, and one attempted without a client raises before any request
Met(u, up, files) ==
    LET long == Truthy(Get(files, "long_form", None))
        short == Truthy(Get(files, "short_form", None))
    IN  [youtube   |-> IF ~long THEN "unused"
                       ELSE IF up.youtube = None THEN "raise" ELSE u.youtube,
         instagram |-> IF ~short THEN "unused"
                       ELSE IF up.instagram = None THEN "raise" ELSE u.instagram,
         shorts    |-> IF ~short THEN "unused"
                       ELSE IF up.youtube = None THEN "raise" ELSE u.shorts]

\* 4. upload_results = self.uploader.upload_to_platforms(video_files, content)
Upload(uenvs) ==
    /\ pc = "upload"
    /\ \E u \in uenvs :
         LET x == upload_to_platforms(uploader, video_files, content, u) IN
         /\ uenv' = Met(u, uploader, video_files)
         /\ upload_results' = x.value
         /\ uplog' = x.calls
         /\ exc' = IF x.raised THEN "Exception" ELSE exc
         /\ pc' = After("upload", x)
    /\ trace' = Append(trace, "upload")
    /\ UNCHANGED <<day, category, env, raw_data, netlog, content, renv, video_files,
                   logged, uploader, videos, topics_used, videos0, clock, runs>>
    /\ UNCHANGED component

\* 5. self.save_video_record(content, upload_results), then the success line
Save ==
    /\ pc = "save"
    /\ LET r == save_video_record(videos, content, upload_results, clock) IN
         /\ videos' = IF r.raised THEN videos ELSE r.value
         /\ exc' = IF r.raised THEN "sqlite3.IntegrityError" ELSE exc
         /\ logged' = IF r.raised THEN logged ELSE Append(logged, SuccessLine)
         /\ pc' = After("save", r)
    /\ trace' = Append(trace, "save")
    /\ UNCHANGED <<day, category, env, raw_data, netlog, content, renv, video_files,
                   uenv, upload_results, uplog, uploader, topics_used, videos0,
                   clock, runs>>
    /\ UNCHANGED component

\* except Exception as e: logging.error(...); an exception the handler does not
\* catch leaves generate_daily_content
HandleException ==
    /\ pc = "except"
    /\ IF caught_by_handler(exc)
       THEN /\ logged' = Append(logged, ErrorLine)
            /\ pc' = "done"
       ELSE /\ logged' = logged
            /\ pc' = "crashed"
    /\ UNCHANGED <<day, category, env, raw_data, netlog, content, renv, video_files,
                   uenv, upload_results, uplog, exc, trace, uploader, videos,
                   topics_used, videos0, clock, runs>>
    /\ UNCHANGED component

AnalysisLine == "INFO Running weekly performance analysis..."

\* analyze_performance adding a row to topics_used
analyze_performance_records_topic(tables) ==
    [tables EXCEPT !.topics_used =
        Append(@, [id |-> Len(@) + 1, topic |-> "weekly", last_used |-> 0, usage_count |-> 1])]

\* analyze_performance refreshing the views of the rows of videos
analyze_performance_updates_views(tables) ==
    [tables EXCEPT !.videos = [i \in 1..Len(@) |-> [@[i] EXCEPT !.views = 1]]]

\* the tables after analyze_performance: its body is one logging call
analyze_performance(tables) == tables

\* analyze_performance, called by the scheduler between two runs
AnalyzePerformance ==
    /\ pc \in {"idle", "done", "crashed"}
    /\ Len(SelectSeq(logged, LAMBDA l : l = AnalysisLine)) < MaxAnalyses
    /\ LET t == analyze_performance([videos |-> videos, topics_used |-> topics_used]) IN
         /\ videos' = t.videos
         /\ topics_used' = t.topics_used
    /\ logged' = Append(logged, AnalysisLine)
    /\ UNCHANGED <<pc, day, category, env, raw_data, netlog, content, renv, video_files,
                   uenv, upload_results, uplog, exc, trace, uploader, videos0, clock, runs>>
    /\ UNCHANGED component

----------------------------------------------------------------------------
(* One run of generate_daily_content, on a database as earlier runs left it *)

\* the titles generate_title can return for category c
TitlesOf(c) ==
    { generate_title(NoValue, c, ch) :
        ch \in Choices(0..Len(templates_of(c)) - 1, 0..2, {0}) }

\* a row an earlier run wrote: its long-form upload succeeded, its Instagram
\* upload failed
EarlierRow(c, t) ==
    [id |-> 1, title |-> t, topic_category |-> c, created_date |-> 0,
     youtube_url |-> "https://youtu.be/video_id", instagram_url |-> None,
     views |-> 0, engagement_rate |-> 0]

EarlierTables ==
    {<<>>} \cup
    { <<EarlierRow(c, t)>> : c \in {"geography"}, t \in TitlesOf("geography") } \cup
    { <<EarlierRow(c, t)>> : c \in {"science"}, t \in TitlesOf("science") } \cup
    { <<EarlierRow(c, t)>> : c \in {"space"}, t \in TitlesOf("space") }

AllChoices == Choices(0..3, 0..2, {0})

Init ==
    /\ pc = "idle"
    /\ LocalsInit
    /\ uploader \in UploaderStates
    /\ videos \in EarlierTables
    /\ topics_used = <<>>
    /\ videos0 = videos
    /\ clock = 0
    /\ runs = 0

Next ==
    \/ StartRun(Days, 1)
    \/ Collect
    \/ Generate(AllChoices)
    \/ Create(RenderOutcomes)
    \/ Upload(UploadOutcomes)
    \/ Save
    \/ HandleException

Spec == Init /\ [][Next]_vars

----------------------------------------------------------------------------
(* Successive runs of generate_daily_content on one database *)

RunsDays == {"monday", "wednesday", "saturday"}

RunsRenders ==
    { [voiceover |-> "ok", long |-> "ok", short |-> "ok"],
      [voiceover |-> "ok", long |-> "raise", short |-> "ok"],
      [voiceover |-> "raise", long |-> "raise", short |-> "raise"] }

RunsUploads ==
    { [youtube |-> "ok", instagram |-> "ok", shorts |-> "ok"],
      [youtube |-> "raise", instagram |-> "raise", shorts |-> "raise"] }

InitRuns ==
    /\ pc = "idle"
    /\ LocalsInit
    /\ uploader = [youtube |-> "client", instagram |-> "client"]
    /\ videos = <<>>
    /\ topics_used = <<>>
    /\ videos0 = <<>>
    /\ clock = 0
    /\ runs = 0

NextRuns ==
    \/ StartRun(RunsDays, MaxRuns)
    \/ Collect
    \/ Generate(AllChoices)
    \/ Create(RunsRenders)
    \/ Upload(RunsUploads)
    \/ Save
    \/ HandleException
    \/ AnalyzePerformance

SpecRuns == InitRuns /\ [][NextRuns]_vars

----------------------------------------------------------------------------
(* upload_to_platforms called on its own: one call per behaviour *)

Paths(p) == {p, None}

\* the mappings create_videos can return, and mappings that lack a key
VideoFileSets ==
    {EmptyDict} \cup
    [long_form : Paths("long.mp4"), short_form : Paths("short.mp4"), audio : Paths("voiceover.mp3")] \cup
    [long_form : Paths("long.mp4")] \cup
    [short_form : Paths("short.mp4")]

SomeContent ==
    create_list_content(get_fallback_space_data, "space",
                        [template |-> 0, filler |-> 0, hook |-> 0]).value

InitUpload ==
    /\ pc = "idle"
    /\ LocalsInit
    /\ uploader \in UploaderStates
    /\ videos = <<>>
    /\ topics_used = <<>>
    /\ videos0 = <<>>
    /\ clock = 0
    /\ runs = 0

CallUploadToPlatforms ==
    /\ pc = "idle"
    /\ \E files \in VideoFileSets, u \in UploadOutcomes :
         LET x == upload_to_platforms(uploader, files, SomeContent, u) IN
         /\ video_files' = files
         /\ content' = SomeContent
         /\ uenv' = Met(u, uploader, files)
         /\ upload_results' = x.value
         /\ uplog' = x.calls
         /\ pc' = IF x.raised THEN "raised" ELSE "returned"
    /\ UNCHANGED <<day, category, env, raw_data, netlog, renv, exc, logged, trace,
                   uploader, videos, topics_used, videos0, clock, runs>>
    /\ UNCHANGED component

NextUpload == CallUploadToPlatforms

SpecUpload == InitUpload /\ [][NextUpload]_vars

----------------------------------------------------------------------------
(* The collector called on its own: one call of get_topic_data per behaviour *)

Categories ==
    {"geography", "history", "science", "space", "technology", "psychology", "trending"}

InitCollect ==
    /\ pc = "idle"
    /\ LocalsInit
    /\ uploader = [youtube |-> None, instagram |-> None]
    /\ videos = <<>>
    /\ topics_used = <<>>
    /\ videos0 = <<>>
    /\ clock = 0
    /\ runs = 0

CallGetTopicData ==
    /\ pc = "idle"
    /\ \E c \in Categories : \E e \in EnvsFor(c) :
         LET r == get_topic_data(c, e) IN
         /\ category' = c
         /\ env' = e
         /\ raw_data' = IF r.raised THEN NoValue ELSE r.value
         /\ netlog' = r.calls
         /\ pc' = IF r.raised THEN "raised" ELSE "returned"
    /\ UNCHANGED <<day, content, renv, video_files, uenv, upload_results, uplog, exc,
                   logged, trace, uploader, videos, topics_used, videos0, clock, runs>>
    /\ UNCHANGED component

NextCollect == CallGetTopicData

SpecCollect == InitCollect /\ [][NextCollect]_vars

----------------------------------------------------------------------------
(* extract_interesting_fact called on its own, on a text given by its parts *)

(* A text is given here as the list text.split('.') makes of it.  Of each     *)
(* part the model keeps what the function reads: the whitespace before it    *)
(* (lead), the length of part.strip() (core) and whether part.lower() has    *)
(* one of interesting_keywords in it (keyword).  A string the function       *)
(* returns is a slice of the text, first..last, and what is appended to it.  *)

\* "if 20 < len(sentence.strip()) < 150"
WindowLow == 20
WindowHigh == 150

InWindow(n) == WindowLow < n /\ n < WindowHigh

\* "text[:150] + '...' if len(text) > 150 else text"
PrefixLen == 150

\* len(part)
RawLen(part) == part.lead + part.core

RECURSIVE TextLenUpTo(_, _)
\* length of the first n parts and the full stops between them
TextLenUpTo(text, n) ==
    IF n = 0 THEN 0
    ELSE TextLenUpTo(text, n - 1) + RawLen(text[n]) + (IF n > 1 THEN 1 ELSE 0)

\* len(text)
TextLen(text) == TextLenUpTo(text, Len(text))

Slice(first, last, suffix) == [first |-> first, last |-> last, suffix |-> suffix]

\* sentence.strip() for part i
Stripped(text, i) ==
    LET first == TextLenUpTo(text, i) - text[i].core + 1
    IN  Slice(first, first + text[i].core - 1, "")

RECURSIVE FirstKeywordInWindow(_, _)
\* the first loop: the part it returns from, 0 when it runs to its end
FirstKeywordInWindow(text, i) ==
    IF i > Len(text) THEN 0
    ELSE IF text[i].keyword /\ InWindow(text[i].core) THEN i
    ELSE FirstKeywordInWindow(text, i + 1)

RECURSIVE FirstInWindow(_, _)
\* the second loop
FirstInWindow(text, i) ==
    IF i > Len(text) THEN 0
    ELSE IF InWindow(text[i].core) THEN i
    ELSE FirstInWindow(text, i + 1)

extract_interesting_fact_no_priority(text) ==
    LET w == FirstInWindow(text, 1)
    IN  IF w # 0 THEN Stripped(text, w)
        ELSE IF TextLen(text) > PrefixLen THEN Slice(1, PrefixLen, "...")
        ELSE Slice(1, TextLen(text), "")

extract_interesting_fact(text) ==
    LET k == FirstKeywordInWindow(text, 1)
        w == FirstInWindow(text, 1)
    IN  IF k # 0 THEN Stripped(text, k)
        ELSE IF w # 0 THEN Stripped(text, w)
        ELSE IF TextLen(text) > PrefixLen THEN Slice(1, PrefixLen, "...")
        ELSE Slice(1, TextLen(text), "")

\* lengths of part.strip() on both sides of the two ends of the window
CoreLens == {0, WindowLow - 1, WindowLow, WindowLow + 1,
             WindowHigh - 1, WindowHigh}

\* the shortest keyword has four letters
Parts ==
    { part \in [lead : {0, 1}, core : CoreLens, keyword : BOOLEAN] :
        part.keyword => part.core >= 4 }

Texts == UNION { [1..n -> Parts] : n \in 1..MaxSentences }

CallExtractInterestingFact ==
    /\ pc = "idle"
    /\ \E text \in Texts :
         /\ args' = [text |-> text]
         /\ ret' = extract_interesting_fact(text)
    /\ pc' = "extracted"
    /\ UNCHANGED <<locals, uploader, videos, topics_used, videos0, clock, runs, hist, sched>>

NextExtract == CallExtractInterestingFact

SpecExtract == InitCollect /\ [][NextExtract]_vars

----------------------------------------------------------------------------
(* The generator called on its own *)

\* a fact record as the collectors build them: with a name (geography), with a
\* topic (the Wikipedia categories), with a topic and no summary, with neither
FactKinds == {"name", "topic", "topic_only", "bare"}

Fact(kind, k) ==
    CASE kind = "name" ->
           [name |-> "Country " \o ToString(k),
            interesting_fact |-> "Fact about country " \o ToString(k) \o ".",
            population |-> 1500 * k]
      [] kind = "topic" ->
           [topic |-> "Topic " \o ToString(k),
            summary |-> "Summary of topic " \o ToString(k) \o ".",
            importance |-> "It matters."]
      [] kind = "topic_only" -> [topic |-> "Topic " \o ToString(k)]
      [] kind = "bare" -> [title |-> "Entry " \o ToString(k)]

FactList(kind, n) == [k \in 1..n |-> Fact(kind, k)]

Bundle(c, kind, n) ==
    [category |-> c, data |-> FactList(kind, n),
     metadata |-> [total_items |-> n, data_source |-> "test"]]

\* the categories of the schedule and the default one
GeneratorCategories == Categories \cup {"general"}

HookChoices == 0..Len(hooks) - 1

InitGenerate ==
    /\ pc = "idle"
    /\ LocalsInit
    /\ uploader = [youtube |-> None, instagram |-> None]
    /\ videos = <<>>
    /\ topics_used = <<>>
    /\ videos0 = <<>>
    /\ clock = 0
    /\ runs = 0

\* one call of create_list_content(raw_data, category) on a generator that
\* served the calls of hist
CallCreateListContent(cats, kinds, sizes, choices, limit) ==
    /\ pc \in {"idle", "returned"}
    /\ Len(hist) < limit
    /\ \E c \in cats, kind \in kinds, n \in sizes, ch \in choices :
         LET a == [raw_data |-> Bundle(c, kind, n), category |-> c, choices |-> ch]
             r == create_list_content(a.raw_data, c, ch)
         IN  /\ args' = a
             /\ ret' = r.value
             /\ hist' = Append(hist, [args |-> a, ret |-> r.value])
             /\ pc' = IF r.raised THEN "raised" ELSE "returned"
    /\ UNCHANGED <<locals, uploader, videos, topics_used, videos0, clock, runs, sched>>

\* one call of generate_list_items(data_items)
CallGenerateListItems ==
    /\ pc = "idle"
    /\ hist = <<>>
    /\ \E kind \in FactKinds, n \in 0..MaxItems :
         /\ args' = [data_items |-> FactList(kind, n)]
         /\ ret' = generate_list_items(FactList(kind, n))
    /\ pc' = "listed"
    /\ UNCHANGED <<locals, uploader, videos, topics_used, videos0, clock, runs, hist, sched>>

NextGenerate ==
    \/ CallCreateListContent(GeneratorCategories, {"name", "topic"}, {0, 3, MaxItems},
                             Choices(0..3, 0..2, HookChoices), 1)
    \/ CallGenerateListItems

SpecGenerate == InitGenerate /\ [][NextGenerate]_vars

\* successive calls on one generator object
NextRepeat ==
    CallCreateListContent({"geography", "space"}, {"name"}, {0, 2},
                          Choices({0, 1}, {0, 1}, {0, 3}), MaxCalls)

SpecRepeat == InitGenerate /\ [][NextRepeat]_vars

----------------------------------------------------------------------------
(* estimate_duration called on its own *)

\* how the words of a script are laid out: single spaces between them; or
\* whitespace before the first and after the last word, and wider gaps
Layouts == {"plain", "padded"}

\* a script of n words
ScriptOf(n, layout) ==
    [full_script |->
       IF layout = "plain"
       THEN [i \in 1..(2 * n - 1) |-> IF i % 2 = 1 THEN "word" ELSE " "]
       ELSE [i \in 1..(2 * n + 1) |->
               IF i % 2 = 0 THEN "word" ELSE IF i % 4 = 1 THEN "\n" ELSE "  "]]

CallEstimateDuration ==
    /\ pc = "idle"
    /\ \E n \in 0..MaxWords, layout \in Layouts :
         /\ args' = [words |-> n, layout |-> layout]
         /\ ret' = estimate_duration(ScriptOf(n, layout))
    /\ pc' = "estimated"
    /\ UNCHANGED <<locals, uploader, videos, topics_used, videos0, clock, runs, hist, sched>>

NextDuration == CallEstimateDuration

SpecDuration == InitGenerate /\ [][NextDuration]_vars

----------------------------------------------------------------------------
(* start_automation: the jobs of schedule, polled by the one thread that     *)
(* also runs them. Time is counted in hours since midnight of the first day. *)

MaxHours == 200
MaxRunHours == 25

HoursPerDay == 24
HoursPerWeek == 168
NineOClock == 9
SleepHours == 1

\* the jobs in the order start_automation registers them
Jobs == <<"generate_daily_content", "analyze_performance">>

\* every().day.at("09:00"): the first 09:00 after now
NextDaily(now) ==
    LET today == (now \div HoursPerDay) * HoursPerDay + NineOClock
    IN  IF today > now THEN today ELSE today + HoursPerDay

\* every().week: a week from now
NextWeekly(now) == now + HoursPerWeek

\* Job._schedule_next_run
schedule_next_run(job, now) ==
    IF job = "generate_daily_content" THEN NextDaily(now) ELSE NextWeekly(now)

\* Job.should_run letting the hour of next_run pass first
should_run_an_hour_late(s, job) == s.now > s.next_run[job]

\* Job.should_run
should_run(s, job) == s.now >= s.next_run[job]

\* "sorted(job for job in self.jobs if job.should_run)", jobs compared by next_run
runnable_jobs(s) ==
    LET due == SelectSeq(Jobs, LAMBDA job : should_run(s, job))
    IN  IF Len(due) = 2 /\ s.next_run[due[2]] < s.next_run[due[1]]
        THEN <<due[2], due[1]>>
        ELSE due

InitSchedule == InitCollect

\* lines 119-125: both jobs are registered, at some hour of the first day
StartAutomation ==
    /\ pc = "idle"
    /\ \E now \in 0..(HoursPerDay - 1) :
         sched' = [now      |-> now,
                   next_run |-> [job \in {Jobs[1], Jobs[2]} |-> schedule_next_run(job, now)],
                   runnable |-> <<>>,
                   running  |-> {},
                   started  |-> now,
                   polled   |-> {}]
    /\ pc' = "run_pending"
    /\ UNCHANGED <<locals, uploader, videos, topics_used, videos0, clock, runs,
                   args, ret, hist>>

\* line 128, schedule.run_pending(): the jobs that are due now are listed;
\* polled keeps the jobs that were in progress when the list was made
RunPending ==
    /\ pc = "run_pending"
    /\ sched' = [sched EXCEPT !.runnable = runnable_jobs(sched),
                              !.polled = sched.running]
    /\ pc' = "run_jobs"
    /\ UNCHANGED <<locals, uploader, videos, topics_used, videos0, clock, runs,
                   args, ret, hist>>

\* Job.run as if job_func were started in a thread of its own
run_job_in_thread ==
    /\ pc = "run_jobs"
    /\ sched.runnable # <<>>
    /\ sched' = [sched EXCEPT !.running = sched.running \cup {Head(sched.runnable)},
                              !.runnable = Tail(sched.runnable),
                              !.started = sched.now]
    /\ pc' = "run_jobs"
    /\ UNCHANGED <<locals, uploader, videos, topics_used, videos0, clock, runs,
                   args, ret, hist>>

\* Job.run, "ret = self.job_func()": the thread enters the job's function
run_job ==
    /\ pc = "run_jobs"
    /\ sched.runnable # <<>>
    /\ sched' = [sched EXCEPT !.running = sched.running \cup {Head(sched.runnable)},
                              !.started = sched.now]
    /\ pc' = "in_job"
    /\ UNCHANGED <<locals, uploader, videos, topics_used, videos0, clock, runs,
                   args, ret, hist>>

\* an hour passes while the job's function executes
JobTakesTime ==
    /\ pc = "in_job"
    /\ sched.now < MaxHours
    /\ sched.now - sched.started < MaxRunHours
    /\ sched' = [sched EXCEPT !.now = sched.now + 1]
    /\ UNCHANGED <<pc, locals, uploader, videos, topics_used, videos0, clock, runs,
                   args, ret, hist>>

\* the job's function returns: Job.run records last_run and schedules the next
\* run, and run_pending goes on with its list
JobReturns ==
    /\ pc = "in_job"
    /\ LET job == Head(sched.runnable) IN
       sched' = [sched EXCEPT !.running = sched.running \ {job},
                              !.next_run[job] = schedule_next_run(job, sched.now),
                              !.runnable = Tail(sched.runnable)]
    /\ pc' = "run_jobs"
    /\ UNCHANGED <<locals, uploader, videos, topics_used, videos0, clock, runs,
                   args, ret, hist>>

\* line 129, time.sleep(3600), once run_pending has gone through its list
Sleep ==
    /\ pc = "run_jobs"
    /\ sched.runnable = <<>>
    /\ sched.now + SleepHours <= MaxHours
    /\ sched' = [sched EXCEPT !.now = sched.now + SleepHours]
    /\ pc' = "run_pending"
    /\ UNCHANGED <<locals, uploader, videos, topics_used, videos0, clock, runs,
                   args, ret, hist>>

NextSchedule ==
    \/ StartAutomation
    \/ RunPending
    \/ run_job
    \/ JobTakesTime
    \/ JobReturns
    \/ Sleep

SpecSchedule == InitSchedule /\ [][NextSchedule]_vars

\* start_automation is one thread in "while True": each statement it reaches is
\* executed, so no step of the loop waits for ever; that a job's function
\* returns is the proviso under which the scheduler is live
SchedulerFairness ==
    /\ WF_vars(StartAutomation)
    /\ WF_vars(RunPending)
    /\ WF_vars(run_job)
    /\ WF_vars(JobReturns)
    /\ WF_vars(Sleep)

SpecScheduleFair == SpecSchedule /\ SchedulerFairness

----------------------------------------------------------------------------
(* create_long_form_video called on its own *)

MaxAudio == 40

\* durations of a voiceover, in whole seconds; the script's fixed sections
\* alone take more than 10 seconds to read
AudioDurations == 10..MaxAudio

\* one call of create_long_form_video(content, audio_file): ret keeps the list
\* clips as it is when concatenate_videoclips is reached, and the value returned
CallCreateLongFormVideo ==
    /\ pc = "idle"
    /\ \E n \in 0..MaxItems, r \in RenderOutcomes,
          audio \in {[file |-> None, duration |-> 0]}
                      \cup {[file |-> "temp/voiceover.mp3", duration |-> d] : d \in AudioDurations} :
         LET cnt == create_list_content(Bundle("science", "topic", n), "science",
                                          [template |-> 0, filler |-> 0, hook |-> 0]).value
             failed == create_content_clips_raises(cnt)
         IN  /\ r.voiceover = (IF audio.file = None THEN "raise" ELSE "ok")
             /\ r.short = "ok"
             /\ args' = [content |-> cnt, audio_file |-> audio.file,
                         audio_duration |-> audio.duration, renv |-> r]
             /\ ret' = [built |-> ~failed,
                        clips |-> IF failed THEN <<>>
                                  ELSE long_form_clips(cnt, audio.file, audio.duration),
                        value |-> create_long_form_video(cnt, audio.file, r).value]
    /\ pc' = "rendered"
    /\ UNCHANGED <<locals, uploader, videos, topics_used, videos0, clock, runs, hist, sched>>

MaxShortAudio == 61

\* durations of the short voiceover, in whole seconds, on both sides of the limit
ShortAudioDurations == (ShortsLimit - 2)..MaxShortAudio

\* one call of create_short_form_video(content, audio_file): ret keeps the list
\* clips as it is when concatenate_videoclips is reached, and the value returned
CallCreateShortFormVideo ==
    /\ pc = "idle"
    /\ \E n \in 0..MaxItems, kind \in FactKinds, r \in RenderOutcomes,
          d \in ShortAudioDurations :
         LET cnt == create_list_content(Bundle("science", kind, n), "science",
                                          [template |-> 0, filler |-> 0, hook |-> 0]).value
             audio == create_voiceover(cnt.script, r).value
         IN  /\ r.long = "ok"
             /\ args' = [content |-> cnt, audio_file |-> audio,
                         short_audio_duration |-> d, renv |-> r]
             /\ ret' = [built |-> r.short = "ok",
                        clips |-> IF r.short = "ok" THEN short_form_clips(cnt) ELSE <<>>,
                        video_duration |-> short_video_duration(d),
                        value |-> create_short_form_video(cnt, audio, r).value]
    /\ pc' = "short_rendered"
    /\ UNCHANGED <<locals, uploader, videos, topics_used, videos0, clock, runs, hist, sched>>

\* one call of create_videos(content): ret keeps what create_long_form_video
\* did, the list clips of create_short_form_video, the methods called and the
\* value returned
CallCreateVideos ==
    /\ pc = "idle"
    /\ \E n \in 0..MaxItems, kind \in FactKinds, r \in RenderOutcomes :
         LET cnt == create_list_content(Bundle("science", kind, n), "science",
                                          [template |-> 0, filler |-> 0, hook |-> 0]).value
             audio == create_voiceover(cnt.script, r).value
             long == create_long_form_video(cnt, audio, r)
             x == create_videos(cnt, r)
             short_built == /\ \E i \in 1..Len(x.calls) : x.calls[i] = "create_short_form_video"
                            /\ r.short = "ok"
         IN  /\ args' = [content |-> cnt, renv |-> r]
             /\ ret' = [long |-> [raised |-> long.raised, value |-> long.value],
                        built |-> short_built,
                        clips |-> IF short_built THEN short_form_clips(cnt) ELSE <<>>,
                        calls |-> x.calls,
                        value |-> x.value]
    /\ pc' = "videos_created"
    /\ UNCHANGED <<locals, uploader, videos, topics_used, videos0, clock, runs, hist, sched>>

NextTimeline ==
    \/ CallCreateLongFormVideo
    \/ CallCreateShortFormVideo
    \/ CallCreateVideos

SpecTimeline == InitGenerate /\ [][NextTimeline]_vars

----------------------------------------------------------------------------
(* Claims about DataCollector, checked under SpecCollect *)

Called == pc \in {"returned", "raised"}

\* C1: for every supported category, get_topic_data returns a bundle whose data
\* list has at least 2 records when every network call raises.
C1_FallbackAtLeastTwo ==
    (Called /\ NetworkDown(env)) =>
        (pc = "returned" /\ Len(raw_data.data) >= 2)

ApodTopic == "NASA Picture of the Day"

\* C9: for category space, when the APOD endpoint answers 200 with a valid
\* payload, the first entry of data has topic "NASA Picture of the Day" and a
\* non-empty explanation, whichever Wikipedia lookups succeed.
C9_ApodFirst ==
    (Called /\ category = "space" /\ env.nasa = "200" /\ ValidApod(env.apod)) =>
        /\ pc = "returned"
        /\ Len(raw_data.data) >= 1
        /\ raw_data.data[1].topic = ApodTopic
        /\ "explanation" \in DOMAIN raw_data.data[1]
        /\ raw_data.data[1].explanation # ""

C9_Witness ==
    /\ pc = "returned" /\ category = "space"
    /\ env.nasa = "200" /\ ValidApod(env.apod)
    /\ env.wikiDown # {} /\ ~env.wikiTailDown
    /\ Len(raw_data.data) > 2

\* C10: for category space, when the APOD endpoint answers a non-200 status,
\* the bundle has no "NASA Picture of the Day" entry, the Wikipedia entries of
\* the sampled topics whose lookup succeeded are collected in order, and no
\* exception propagates.
C10_Non200NoApod ==
    (Called /\ category = "space" /\ env.nasa = "404") =>
        /\ pc = "returned"
        /\ \A k \in 1..Len(raw_data.data) : raw_data.data[k].topic # ApodTopic
        /\ LET ok == Fetched(Sample(10, 5, env.rnd), env) IN
           /\ Len(raw_data.data) = Len(ok)
           /\ \A k \in 1..Len(ok) : raw_data.data[k].topic = space_topics[ok[k]]

C10_Witness ==
    /\ pc = "returned" /\ category = "space" /\ env.nasa = "404"
    /\ Len(raw_data.data) >= 1
    /\ Len(raw_data.data) < 5

\* the hard-coded record set of a category that has one
FallbackOf(c) ==
    CASE c = "geography"  -> get_fallback_geography_data
      [] c = "space"      -> get_fallback_space_data
      [] c = "technology" -> get_fallback_technology_data
      [] c = "psychology" -> get_fallback_psychology_data
      [] c = "trending"   -> get_fallback_trending_data
      [] OTHER            -> None

\* C18: for every category, a network call that raises is attempted exactly
\* once (the log of calls names no call twice) and get_topic_data then returns
\* that category's hard-coded fallback record set, data_source "Fallback Data".
C18_OnceThenFallback ==
    (Called /\ NetworkDown(env)) =>
        /\ netlog # <<>>
        /\ \A i, j \in 1..Len(netlog) : i # j => netlog[i] # netlog[j]
        /\ pc = "returned"
        /\ raw_data.metadata.data_source = "Fallback Data"
        /\ raw_data = FallbackOf(category)

----------------------------------------------------------------------------
(* Claims about the storage of a run, checked under SpecRuns and Spec *)

Range(seq) == {seq[i] : i \in 1..Len(seq)}

TitleStored(table, t) == \E i \in 1..Len(table) : table[i].title = t

SaveCalled == Len(trace) = 5

\* C2: save_video_record called with a title that is already in videos raises
\* the uniqueness violation and leaves the table as it was; and at all times no
\* two rows of videos have the same title.
C2_TitleUnique ==
    /\ \A i, j \in 1..Len(videos) : i # j => videos[i].title # videos[j].title
    /\ (SaveCalled /\ TitleStored(videos0, content.title)) =>
          (exc = "sqlite3.IntegrityError" /\ videos = videos0)

C2_Witness ==
    /\ runs = 2
    /\ SaveCalled
    /\ TitleStored(videos0, content.title)
    /\ exc = "sqlite3.IntegrityError"

RunEnded == pc \in {"done", "crashed"}

\* C3 as stated: a storage error raised by save_video_record for a duplicate
\* title leaves generate_daily_content uncaught and crashes the run.
C3_Original ==
    (RunEnded /\ exc = "sqlite3.IntegrityError") =>
        (pc = "crashed" /\ ErrorLine \notin Range(logged))

\* C3 amended: a storage error raised by save_video_record for a duplicate
\* title is caught by the handler of generate_daily_content, which logs it;
\* the run ends without a crash and the table is as it was.
C3_Caught ==
    /\ pc # "crashed"
    /\ (RunEnded /\ exc = "sqlite3.IntegrityError") =>
          /\ pc = "done"
          /\ logged = <<ErrorLine>>
          /\ videos = videos0

C3_Witness ==
    /\ pc = "done"
    /\ exc = "sqlite3.IntegrityError"
    /\ SaveCalled
    /\ TitleStored(videos0, content.title)

StepOrder == <<"collect", "generate", "create", "upload", "save">>

Steps == Range(StepOrder)

\* C4: within one run the steps are called in the order collect, generate,
\* create, upload, save; a step is called only when the one before it has
\* returned, none is called twice, and each works on the values the earlier
\* steps returned.
C4_StepOrder ==
    /\ Len(trace) <= Len(StepOrder)
    /\ \A i \in 1..Len(trace) : trace[i] = StepOrder[i]
    /\ pc \in Steps => pc = StepOrder[Len(trace) + 1]
    /\ (Len(trace) >= 2) =>
          /\ content.raw_data = raw_data
          /\ content.category = category
    /\ (Len(trace) >= 3) => video_files = create_videos(content, renv).value
    /\ (Len(trace) >= 4) =>
          /\ uenv = Met(uenv, uploader, video_files)
          /\ upload_results = upload_to_platforms(uploader, video_files, content, uenv).value
    /\ (SaveCalled /\ exc = NoValue) =>
          videos = save_video_record(videos0, content, upload_results, clock).value

C4_Witness ==
    /\ pc = "done"
    /\ trace = StepOrder
    /\ exc = NoValue

RunSucceeded ==
    /\ logged = <<SuccessLine>>
    /\ Len(videos) = Len(videos0) + 1
    /\ SubSeq(videos, 1, Len(videos0)) = videos0

RunFailed ==
    /\ logged = <<ErrorLine>>
    /\ videos = videos0

\* C5: every run ends either in success, with exactly one row added to videos,
\* or in failure, with an exception logged and no row added; no run adds more
\* than one row and no run ends any other way.
C5_TwoOutcomes ==
    /\ pc # "crashed"
    /\ Len(videos) <= Len(videos0) + 1
    /\ pc = "done" => (RunSucceeded /\ ~RunFailed) \/ (RunFailed /\ ~RunSucceeded)

C5_Witness ==
    /\ pc = "done"
    /\ RunSucceeded
    /\ Len(videos0) = 1

LongRenderFailed == renv.long = "raise" \/ create_content_clips_raises(content)

\* C6: an exception raised while rendering does not leave create_videos: the
\* artifact that failed is reported as None (or the mapping is empty), and the
\* run goes on to the upload and the persist steps.
C6_RenderFailureContained ==
    /\ (Len(trace) = 3) => pc = "upload"
    /\ (Len(trace) >= 3) =>
          /\ LongRenderFailed => Get(video_files, "long_form", None) = None
          /\ renv.short = "raise" => Get(video_files, "short_form", None) = None
          /\ renv.voiceover = "raise" => Get(video_files, "audio", None) = None
    /\ (Len(trace) >= 3 /\ RunEnded) => trace = StepOrder

C6_Witness ==
    /\ pc = "done"
    /\ renv.long = "raise"
    /\ renv.short = "ok"
    /\ trace = StepOrder
    /\ Len(videos) = Len(videos0) + 1

----------------------------------------------------------------------------
(* Claims about upload_to_platforms, checked under SpecUpload *)

UploadCalled == pc \in {"returned", "raised"} /\ uenv # NoOutcome

HasLong == Truthy(Get(video_files, "long_form", None))
HasShort == Truthy(Get(video_files, "short_form", None))

\* C7: the upload calls are independent: a failed upload (an exception in it,
\* or a None result) neither leaves upload_to_platforms nor keeps the other
\* uploads from being attempted, and the URLs of the uploads that succeeded
\* are returned.
C7_UploadsIndependent ==
    UploadCalled =>
        /\ pc = "returned"
        /\ HasLong => "youtube" \in Range(uplog)
        /\ HasShort => {"instagram", "youtube_shorts"} \subseteq Range(uplog)
        /\ uenv.youtube = "ok" => upload_results.youtube_url = "https://youtu.be/video_id"
        /\ uenv.instagram = "ok" => upload_results.instagram_url = "https://instagram.com/p/code"
        /\ uenv.shorts = "ok" =>
              upload_results.youtube_shorts_url = "https://youtube.com/shorts/video_id"

C7_Witness ==
    /\ pc = "returned"
    /\ uenv # NoOutcome
    /\ uenv.youtube = "raise"
    /\ uenv.instagram = "nomedia"
    /\ uenv.shorts = "ok"
    /\ uplog = <<"youtube", "instagram", "youtube_shorts">>
    /\ upload_results.youtube_shorts_url # None

\* C8: the standard YouTube upload is attempted exactly when there is a
\* long-form file, the Instagram and the Shorts uploads exactly when there is a
\* short-form file; for an absent file nothing is uploaded and the result has
\* no key.
C8_UploadIffFile ==
    UploadCalled =>
        /\ ("youtube" \in Range(uplog)) <=> HasLong
        /\ ("instagram" \in Range(uplog)) <=> HasShort
        /\ ("youtube_shorts" \in Range(uplog)) <=> HasShort
        /\ ("youtube_url" \in DOMAIN upload_results) <=> HasLong
        /\ ("instagram_url" \in DOMAIN upload_results) <=> HasShort
        /\ ("youtube_shorts_url" \in DOMAIN upload_results) <=> HasShort

C8_Witness ==
    /\ pc = "returned"
    /\ uenv # NoOutcome
    /\ video_files = EmptyDict
    /\ upload_results = EmptyDict
    /\ uplog = <<>>

----------------------------------------------------------------------------
(* Claims about ContentGenerator, checked under SpecGenerate and SpecRepeat *)

Pieces(text) == {text[i] : i \in DOMAIN text}

GeographyTitlePool ==
    LET templates == title_templates.geography
    IN  {templates[i] : i \in DOMAIN templates} \cup
        {Format(templates[i], geography_fillers[k]) :
           i \in DOMAIN templates, k \in DOMAIN geography_fillers}

\* C11: for category geography, every title generate_title returns is one of
\* the geography templates, unchanged or with its placeholder filled by one of
\* the three filler words, and has no unresolved {} in it, whatever is drawn.
C11_GeographyTitle ==
    (pc = "returned" /\ args.category = "geography") =>
        /\ ret.title \in GeographyTitlePool
        /\ Placeholder \notin Pieces(ret.title)

C11_Witness ==
    /\ pc = "returned"
    /\ args.category = "geography"
    /\ args.choices.template = 1
    /\ ret.title = <<"Mind-Blowing Facts About ", "Shocking", " Countries">>

ItemStarts(text) == {i \in DOMAIN text : text[i] = "Number "}

\* what format_list_item says after the number of a record
Label(item) ==
    IF "name" \in DOMAIN item THEN item.name
    ELSE IF "topic" \in DOMAIN item THEN item.topic
    ELSE ToString(item)

\* C15: generate_list_items returns exactly min(n, 10) numbered items for n
\* fact records, numbered from 1 in the order of the records, for every n
\* (0 and fewer than 10 included); records after the tenth are left out.
C15_ListItems ==
    pc = "listed" =>
        LET items == args.data_items
            n == Len(items)
            m == IF n < 10 THEN n ELSE 10
            starts == ItemStarts(ret)
        IN  /\ Cardinality(starts) = m
            /\ \A i \in starts :
                 LET k == Cardinality({j \in starts : j <= i})
                 IN  /\ ret[i + 1] = ToString(k)
                     /\ ret[i + 3] = Label(items[k])

C15_Witness ==
    /\ pc = "listed"
    /\ Len(args.data_items) = MaxItems
    /\ "name" \in DOMAIN args.data_items[1]
    /\ Cardinality(ItemStarts(ret)) = 10

----------------------------------------------------------------------------
(* Claims about extract_interesting_fact, checked under SpecExtract *)

KeywordInWindow(text) ==
    {i \in DOMAIN text : text[i].keyword /\ InWindow(text[i].core)}

AnyInWindow(text) == {i \in DOMAIN text : InWindow(text[i].core)}

Least(S) == CHOOSE i \in S : \A j \in S : i <= j

\* the first two ranks of the priority: keyword and window, then window alone
SentenceByPriority(text) ==
    /\ KeywordInWindow(text) # {} =>
          ret = Stripped(text, Least(KeywordInWindow(text)))
    /\ (KeywordInWindow(text) = {} /\ AnyInWindow(text) # {}) =>
          ret = Stripped(text, Least(AnyInWindow(text)))

\* C16 as stated: the first sentence with a keyword and a length in the
\* window; else the first sentence with a length in the window; else the
\* 150-character prefix of the text, or the whole text when it is not longer.
C16_Original ==
    pc = "extracted" =>
        LET text == args.text
        IN  /\ SentenceByPriority(text)
            /\ AnyInWindow(text) = {} =>
                  ret = Slice(1, IF TextLen(text) > 150 THEN 150 ELSE TextLen(text), "")

\* C16 amended: the same priority, and in the last case the 150-character
\* prefix of the text followed by "...", or the whole text when it is not
\* longer than 150 characters.
C16_Priority ==
    pc = "extracted" =>
        LET text == args.text
        IN  /\ SentenceByPriority(text)
            /\ (AnyInWindow(text) = {} /\ TextLen(text) > 150) =>
                  ret = Slice(1, 150, "...")
            /\ (AnyInWindow(text) = {} /\ TextLen(text) <= 150) =>
                  ret = Slice(1, TextLen(text), "")

C16_Witness ==
    /\ pc = "extracted"
    /\ Len(args.text) = 3
    /\ InWindow(args.text[1].core) /\ ~args.text[1].keyword
    /\ args.text[2].keyword /\ ~InWindow(args.text[2].core)
    /\ args.text[3].keyword /\ InWindow(args.text[3].core)
    /\ ret = Stripped(args.text, 3)

\* C17: the window is [20,150): followed by a sentence that is in the window
\* and has no keyword, a first sentence of stripped length 20 or 149 is the
\* one returned, and one of stripped length 19 or 150 is passed over.
C17_Window ==
    (/\ pc = "extracted"
     /\ Len(args.text) = 2
     /\ args.text[2].core = 21
     /\ ~args.text[2].keyword) =>
        /\ args.text[1].core \in {20, 149} => ret = Stripped(args.text, 1)
        /\ args.text[1].core \in {19, 150} => ret = Stripped(args.text, 2)

----------------------------------------------------------------------------
(* Claims about estimate_duration, checked under SpecDuration *)

\* C13: estimate_duration is monotonic in the word count: a script of one
\* word fewer never gets a larger estimate (which, over all word counts up to
\* MaxWords, is the same as w1 <= w2 giving estimate(w1) <= estimate(w2)), and
\* a script of twice the words never gets a smaller one.
C13_Monotonic ==
    pc = "estimated" =>
        /\ args.words >= 1 =>
              \A layout \in Layouts :
                  estimate_duration(ScriptOf(args.words - 1, layout)) <= ret
        /\ \A layout \in Layouts :
              ret <= estimate_duration(ScriptOf(2 * args.words, layout))

C13_Witness ==
    /\ pc = "estimated"
    /\ args.words = 300
    /\ ret = 120
    /\ estimate_duration(ScriptOf(600, "padded")) = 240
    /\ estimate_duration(ScriptOf(299, "plain")) = 119

\* C14: estimate_duration returns exactly floor(word_count * 60 / 150), where
\* word_count is the number of whitespace-separated words of full_script.
C14_ExactFloor ==
    pc = "estimated" => ret = (args.words * 60) \div 150

----------------------------------------------------------------------------
(* Claims about start_automation, checked under SpecSchedule *)

Scheduling == pc \in {"run_pending", "run_jobs", "in_job"}

\* C19: under start_automation at most one of generate_daily_content and
\* analyze_performance is in progress at any time, whenever run_pending looks
\* at which jobs are due no job is in progress, and a job that became due
\* while another was executing is not started before that one has returned.
C19_OneAtATime ==
    Scheduling =>
        /\ Cardinality(sched.running) <= 1
        /\ sched.polled = {}
        /\ pc = "run_pending" => sched.running = {}
        /\ pc = "in_job" => sched.running = {Head(sched.runnable)}

\* generate_daily_content is executing, and during its execution both the
\* weekly job and the next daily run have become due
C19_Witness ==
    /\ pc = "in_job"
    /\ sched.running = {"generate_daily_content"}
    /\ sched.started < sched.next_run["analyze_performance"]
    /\ sched.now >= sched.next_run["analyze_performance"]
    /\ sched.now >= sched.started + HoursPerDay

----------------------------------------------------------------------------
(* Claims about create_long_form_video, checked under SpecTimeline *)

Built == pc = "rendered" /\ ret.built

FactClips == Len(ret.clips) - 2

VideoDuration == video_duration_of(args.audio_file, args.audio_duration)

\* the clips are a 5-second title card, one clip per fact record (at most 10),
\* numbered in order, each of duration (D - 10) / n, and a 5-second outro
TimelineShape ==
    /\ FactClips = Len(Take(args.content.raw_data.data, 10))
    /\ ret.clips[1].kind = "title" /\ ret.clips[1].duration = float_of(5)
    /\ \A i \in 1..FactClips :
         /\ ret.clips[i + 1].kind = "fact"
         /\ ret.clips[i + 1].number = i
         /\ ret.clips[i + 1].text = args.content.raw_data.data[i]
         /\ ret.clips[i + 1].duration = float_div(VideoDuration - 10, FactClips)
    /\ ret.clips[FactClips + 2].kind = "outro"
    /\ ret.clips[FactClips + 2].duration = float_of(5)

\* C20 as stated: the long-form timeline is a 5-second title card, one clip per
\* fact record (at most 10) each of duration (D - 10) / n, and a 5-second
\* outro, and the durations of the clips sum to D exactly.
C20_Original ==
    Built => /\ TimelineShape
             /\ concatenated_duration(ret.clips) = float_of(VideoDuration)

\* C20 amended: the long-form timeline is a 5-second title card, one clip per
\* fact record (at most 10) each of duration the float (D - 10) / n, and a
\* 5-second outro; the durations of the clips, added up as floats, sum to D
\* within rounding (less than 2^-20 seconds off).
C20_Timeline ==
    Built => /\ TimelineShape
             /\ float_near(concatenated_duration(ret.clips), VideoDuration)

\* no voiceover and six facts: the durations add up to 479.99999999999994
C20_Witness ==
    /\ Built
    /\ args.audio_file = None
    /\ FactClips = 6
    /\ VideoDuration = FallbackDuration
    /\ concatenated_duration(ret.clips) # float_of(FallbackDuration)
    /\ float_int(concatenated_duration(ret.clips)) = FallbackDuration - 1

ShortBuilt == pc = "short_rendered" /\ ret.built

\* C21: the short-form timeline is a hook card, then min(3, n) fact cards for
\* a bundle of n fact records, in order, then a CTA card, and its total
\* duration never exceeds 60 seconds, whatever the bundle and however long the
\* short voiceover is.
C21_ShortTimeline ==
    ShortBuilt =>
        LET data == args.content.raw_data.data
            shown == IF Len(data) < 3 THEN Len(data) ELSE 3
        IN  /\ Len(ret.clips) = shown + 2
            /\ ret.clips[1].kind = "text"
            /\ ret.clips[1].text = args.content.script.hook
            /\ \A i \in 1..shown :
                 /\ ret.clips[i + 1].kind = "fact"
                 /\ ret.clips[i + 1].number = i
                 /\ ret.clips[i + 1].text = data[i]
            /\ ret.clips[shown + 2].kind = "text"
            /\ ret.clips[shown + 2].text = <<"Follow for more amazing facts!">>
            /\ concatenated_seconds(ret.clips) <= 60

\* twelve fact records and a short voiceover of more than 60 seconds: three
\* fact cards, 38 seconds
C21_Witness ==
    /\ ShortBuilt
    /\ Len(args.content.raw_data.data) = 12
    /\ args.short_audio_duration > 60
    /\ Len(ret.clips) = 5
    /\ concatenated_seconds(ret.clips) = 38

----------------------------------------------------------------------------
(* Claims about the row a run persists, checked under Spec and SpecRuns *)

Persisted == pc = "done" /\ exc = NoValue /\ Len(videos) = Len(videos0) + 1

Row == videos[Len(videos)]

YoutubeFailed == uploader.youtube = None \/ uenv.youtube = "raise"

InstagramFailed == uploader.instagram = None \/ uenv.instagram \in {"raise", "nomedia"}

\* the columns other than the two URLs are written as in any successful run
OtherColumns ==
    /\ Row.id = Len(videos)
    /\ Row.title = content.title
    /\ Row.topic_category = content.category
    /\ Row.created_date = clock
    /\ Row.views = 0
    /\ Row.engagement_rate = 0

\* C22 as stated: in the persisted row the URL column of a video whose file is
\* absent and of a video whose upload was attempted and failed hold the same
\* empty value, and all other columns are written as in a successful run.
C22_Original ==
    Persisted =>
        /\ (~HasLong \/ YoutubeFailed) => Row.youtube_url = ""
        /\ (~HasShort \/ InstagramFailed) => Row.instagram_url = ""
        /\ OtherColumns

\* C22 amended: in the persisted row the URL column is the empty string when
\* the video file is absent and NULL (None) when the upload was attempted and
\* failed, it is the URL when the upload succeeded, and all other columns are
\* written as in a successful run.
C22_EmptyUrl ==
    Persisted =>
        /\ Row.youtube_url = (IF ~HasLong THEN "" ELSE IF YoutubeFailed THEN None
                              ELSE "https://youtu.be/video_id")
        /\ Row.instagram_url = (IF ~HasShort THEN "" ELSE IF InstagramFailed THEN None
                                ELSE "https://instagram.com/p/code")
        /\ OtherColumns

\* a run without a long-form file whose Instagram upload failed
C22_Witness ==
    /\ Persisted
    /\ ~HasLong /\ HasShort /\ InstagramFailed
    /\ Row.youtube_url = ""
    /\ Row.instagram_url = None

Analyzed == \E i \in 1..Len(logged) : logged[i] = AnalysisLine

\* C23: topics_used is created empty by setup_database and no operation writes
\* it: after any sequence of daily runs and weekly analyses it has no rows.
C23_TopicsUnused == topics_used = <<>>

\* a second run has saved its row after an analysis, and topics_used is empty
C23_Witness ==
    /\ runs = MaxRuns /\ pc = "done" /\ Persisted
    /\ Analyzed
    /\ topics_used = <<>>

\* C24: every row of videos is write-once: a step leaves the existing rows as
\* they are (none updated, none deleted) and a row it adds has views = 0 and
\* engagement_rate = 0.
C24_WriteOnce ==
    [][ /\ Len(videos') >= Len(videos)
        /\ \A i \in 1..Len(videos) : videos'[i] = videos[i]
        /\ \A i \in (Len(videos) + 1)..Len(videos') :
             videos'[i].views = 0 /\ videos'[i].engagement_rate = 0 ]_vars

\* two rows stand in videos, the first written by an earlier run, and an
\* analysis has run since the last row was written
C24_Witness ==
    /\ Len(videos) = 2
    /\ videos0 = <<videos[1]>>
    /\ videos[1].views = 0 /\ videos[2].views = 0
    /\ pc = "done" /\ logged[Len(logged)] = AnalysisLine

----------------------------------------------------------------------------
(* Claims about the size of the bundle, checked under SpecCollect *)

\* the most records get_topic_data(c) returns
MostRecords(c) ==
    CASE c \in {"geography", "history", "science", "technology", "psychology"} -> 10
      [] c = "space" -> 6
      [] OTHER -> 9

\* C25: for every category and every combination of network outcomes, the
\* 'data' list of the bundle get_topic_data returns has at most 15 records: at
\* most 10 for geography, history, science, technology and psychology, at most
\* 6 for space, at most 9 for trending.
C25_AtMostFifteen ==
    pc = "returned" =>
        /\ Len(raw_data.data) <= 15
        /\ Len(raw_data.data) <= MostRecords(category)

\* trending data of three categories that each gave three records, one of them
\* geography with its fifteen sampled countries cut to ten and then to three
C25_Witness ==
    /\ pc = "returned"
    /\ category = "trending"
    /\ env.rest = "ok" /\ env.ncountries >= 15
    /\ \E j \in 1..3 : trending_categories[env.catSample[j]] = "geography"
    /\ Len(raw_data.data) = 9

----------------------------------------------------------------------------
(* Claims about titles of every category, checked under SpecGenerate *)

\* C26: for every category of the weekday schedule and for the default
\* category, the title generate_title returns has no unresolved {} in it.
C26_NoPlaceholder ==
    pc = "returned" => Placeholder \notin Pieces(ret.title)

----------------------------------------------------------------------------
(* Claims about uploads and their record, checked under Spec *)

\* the run obtained a URL under key from upload_to_platforms
Obtained(key) ==
    /\ Len(trace) = 5 \/ (Len(trace) = 4 /\ exc = NoValue)
    /\ Truthy(Get(upload_results, key, None))

\* a row this run wrote
RowsOfRun == {videos[i] : i \in (Len(videos0) + 1)..Len(videos)}

\* C27: when a run has ended, every URL it obtained from the standard YouTube
\* upload or from the Instagram upload stands in a row of videos this run
\* wrote; no run leaves a video uploaded but unrecorded, the run whose title
\* collides with an earlier row included.
C27_UploadedIsRecorded ==
    RunEnded =>
        /\ Obtained("youtube_url") =>
              \E row \in RowsOfRun : row.youtube_url = upload_results.youtube_url
        /\ Obtained("instagram_url") =>
              \E row \in RowsOfRun : row.instagram_url = upload_results.instagram_url

ShortsUrl == "https://youtube.com/shorts/video_id"

\* C28: save_video_record writes title, category, creation timestamp,
\* youtube_url and instagram_url and nothing else of the run: the Shorts URL
\* stands in no column of the row, and the row of a run whose only successful
\* upload is the Shorts upload has no URL in either URL column.
C28_ShortsNotStored ==
    Persisted =>
        /\ Row = [id |-> Len(videos), title |-> content.title,
                  topic_category |-> content.category, created_date |-> clock,
                  youtube_url |-> Get(upload_results, "youtube_url", ""),
                  instagram_url |-> Get(upload_results, "instagram_url", ""),
                  views |-> 0, engagement_rate |-> 0]
        /\ DOMAIN Row = {"id", "title", "topic_category", "created_date", "youtube_url",
                         "instagram_url", "views", "engagement_rate"}
        /\ \A column \in {"topic_category", "youtube_url", "instagram_url"} :
              Row[column] # ShortsUrl
        /\ ShortsUrl \notin Range(Row.title)
        /\ (~Obtained("youtube_url") /\ ~Obtained("instagram_url")) =>
              (~Truthy(Row.youtube_url) /\ ~Truthy(Row.instagram_url))

\* the Shorts upload is the only one that succeeded, and the row is written
C28_Witness ==
    /\ Persisted
    /\ Obtained("youtube_shorts_url")
    /\ upload_results.youtube_shorts_url = ShortsUrl
    /\ HasLong /\ upload_results.youtube_url = None
    /\ upload_results.instagram_url = None
    /\ Row.youtube_url = None /\ Row.instagram_url = None

----------------------------------------------------------------------------
(* Claims about create_videos on a bundle without facts, under SpecTimeline *)

NoFacts == Len(args.content.raw_data.data) = 0

\* C29: for a bundle whose fact list is empty, create_long_form_video returns
\* None and raises nothing, create_short_form_video is still called, the clips
\* it builds (when its rendering does not fail) are the hook card and the CTA
\* card only, and create_videos returns a mapping with long_form = None.
C29_EmptyFactList ==
    (pc = "videos_created" /\ NoFacts) =>
        /\ ~ret.long.raised /\ ret.long.value = None
        /\ ret.calls = <<"create_voiceover", "create_long_form_video",
                         "create_short_form_video">>
        /\ args.renv.short = "ok" =>
              /\ ret.built
              /\ ret.clips = <<create_vertical_text_clip(args.content.script.hook, HookSeconds),
                               create_vertical_text_clip(<<"Follow for more amazing facts!">>,
                                                         CtaSeconds)>>
        /\ DOMAIN ret.value = {"long_form", "short_form", "audio"}
        /\ ret.value.long_form = None

\* no facts, every library call succeeds: no long-form file, a short-form file
C29_Witness ==
    /\ pc = "videos_created" /\ NoFacts
    /\ args.renv = [voiceover |-> "ok", long |-> "ok", short |-> "ok"]
    /\ ret.value.long_form = None
    /\ ret.value.short_form = "generated_videos/short_form_science.mp4"
    /\ Len(ret.clips) = 2

----------------------------------------------------------------------------
(* Claims about the triggers of start_automation, under SpecScheduleFair *)

Daily == Jobs[1]

\* 09:00 of day k, in hours since midnight of the day start_automation is called
TriggerOf(k) == NineOClock + k * HoursPerDay

\* the days whose trigger is executed within MaxHours whatever runs before it
HorizonDays == (MaxHours - MaxRunHours - SleepHours - NineOClock) \div HoursPerDay

\* generate_daily_content is executing for the trigger of day k
Executed(k) ==
    /\ pc = "in_job"
    /\ Head(sched.runnable) = Daily
    /\ sched.next_run[Daily] = TriggerOf(k)

Listed(list, job) == Len(SelectSeq(list, LAMBDA j : j = job))

\* what one step of the loop of start_automation does with the list of a poll
PollStep ==
    /\ (pc = "run_pending" /\ pc' = "run_jobs") =>
          \A i \in 1..Len(Jobs) :
             Listed(sched'.runnable, Jobs[i]) =
                (IF sched.now >= sched.next_run[Jobs[i]] THEN 1 ELSE 0)
    /\ (pc = "run_jobs" /\ pc' = "in_job") => sched'.runnable = sched.runnable
    /\ (pc = "in_job" /\ pc' = "run_jobs") => sched'.runnable = Tail(sched.runnable)
    /\ (pc = "run_jobs" /\ pc' = "run_pending") => sched.runnable = <<>>
    /\ (pc = "in_job" /\ pc' = "in_job") => sched' = [sched EXCEPT !.now = @ + 1]

\* the trigger that follows the trigger of one day is the trigger of the next
NoDaySkipped ==
    pc # "idle" =>
        sched'.next_run[Daily] \in {sched.next_run[Daily], sched.next_run[Daily] + HoursPerDay}

\* C30 as stated: provided every run returns, the 09:00 trigger of every day
\* is eventually executed, at the first hourly poll at or after it is due, and
\* generate_daily_content is executed at most once per poll; while a run does
\* not return, no other trigger is executed.
C30_Original ==
    /\ \A k \in 1..HorizonDays :
          (pc # "idle" /\ sched.now < TriggerOf(k)) ~> Executed(k)
    /\ [][PollStep /\ NoDaySkipped]_vars

\* C30 amended: provided every run returns, every trigger the scheduler has set
\* (next_run, the first 09:00 after the return of the run before it) is
\* eventually executed, in the first poll at or after it is due, and a poll
\* executes generate_daily_content at most once; the 09:00 of a day that passes
\* while a run is in progress is not a trigger and is never executed; while a
\* run does not return, no other trigger is executed.
C30_Triggers ==
    /\ \A k \in 0..HorizonDays :
          (pc # "idle" /\ sched.next_run[Daily] = TriggerOf(k)) ~> Executed(k)
    /\ [][PollStep]_vars
    /\ [](pc # "idle" => Listed(sched.runnable, Daily) <= 1)

\* the trigger of the third day is executed in the poll made at the hour it is due
C30_Witness ==
    /\ Executed(2)
    /\ sched.started = TriggerOf(2)
    /\ sched.now = sched.started

=============================================================================
